---- MODULE Spec2Model ----
(***************************************************************************)
(* EduPay authentication core: the rate limiter, the login attempt guard,  *)
(* the token service and the login / refresh / logout handlers.            *)
(*                                                                         *)
(* Time is the value of Date.now() in milliseconds.  A handler (or the     *)
(* synchronous part of a handler between two awaits) runs at one instant:  *)
(* every clock read inside it returns `now'.  The configuration values     *)
(* (limits, windows, expiries) are scaled down so that windows and expiries*)
(* elapse within the time horizon; the arithmetic on them is the code's.   *)
(***************************************************************************)
EXTENDS Integers, Sequences, FiniteSets, TLC

----------------------------------------------------------------------------
(* Bounds of the model *)

\* the clock advances in steps of TickMs milliseconds, MaxTicks times
TickMs == 500
MaxTicks == 5
MaxTime == MaxTicks * TickMs

\* config.rateLimit.maxRequests / authMaxRequests (scaled)
maxRequests == 3
authMaxRequests == 2
\* config.rateLimit.windowMs / authWindowMs (scaled)
windowMs == 2 * TickMs
authWindowMs == 3 * TickMs

\* config.security.maxLoginAttempts / lockoutDuration (scaled)
maxLoginAttempts == 3
lockoutDuration == 3 * TickMs

\* config.jwt.accessTokenExpiry / refreshTokenExpiry, in seconds (scaled)
accessTokenExpiry == 1
refreshTokenExpiry == 2
\* datetime('now', '+7 days') of the refresh_tokens rows, in seconds (scaled)
storedTokenLifetime == 2

\* requests that may be suspended at an await at the same time
MaxInflight == 1

\* the same where concurrent logins of one identity are examined
MaxConcurrent == 2

\* the most data-store calls one handler makes between two awaits
MaxStoreCalls == 2

\* the tokens handed out before the last login of a two-user scenario starts
MaxIssued == 4

\* the refresh tokens handed out in the scenario of logouts by token
MaxSessions == 3

\* milliseconds per second, as in Math.ceil(x / 1000)
MsPerSec == 1000

Clients == {"ip1", "ip2"}
Limiters == {"global", "auth"}
\* submitted email strings: two accounts and one address without an account
Emails == {"prof@x.edu", "admin@x.edu", "ghost@x.edu", "Prof@x.edu"}
\* the identities the guard is called for directly
Identities == {"prof@x.edu", "ghost@x.edu"}
\* submitted passwords: the seeded ones and a wrong one
Passwords == {"demo123", "admin123", "wrong"}
\* role claims of presented tokens; "none": the token has no role claim
Roles == {"admin", "professor", "none"}
\* the :id parameter of the admin routes: the two users and an unused id
UserIds == {1, 2, 3}
\* expiry claims (seconds) of presented tokens
Expiries == {1, 2}

VARIABLES
    now,                 \* Date.now()
    enableRateLimiting,  \* config.features.enableRateLimiting
    rateLimitStore,      \* the Map rateLimitStore: client -> {count, resetTime}
    rlOwn,               \* history: the store each limiter would hold alone
    rlSent,              \* history: per limiter and client, the running window
    rlRejected,          \* history: per client, the window of its last request
                         \* when that request was rejected
    rlLog,               \* history: the limiter calls of the last request
    loginAttempts,       \* the Map loginAttempts: email -> {attempts, lockUntil}
    streak,              \* history: failed recordAttempt calls since no record
    call,                \* history: the last call of the login attempt guard
    users,               \* table users: id -> row
    refresh_tokens,      \* table refresh_tokens: the set of its rows
    issued,              \* history: the tokens returned to clients so far
    revoked,             \* history: the refresh tokens a completed logout covered
    purged,              \* history: the refresh tokens issued to a user before a
                         \* completed deletion of all of that user's records
    storeFault,          \* the data-store call of the next request that throws
    inflight,            \* requests suspended at an await
    resp                 \* the last HTTP response

rlVars == <<rateLimitStore, rlOwn, rlSent, rlRejected, rlLog>>
guardVars == <<loginAttempts, streak, call>>
dbVars == <<users, refresh_tokens, issued, revoked, purged>>

vars == <<now, enableRateLimiting, rateLimitStore, rlOwn, rlSent, rlRejected,
          rlLog, loginAttempts, streak, call, users, refresh_tokens, issued,
          revoked, purged, storeFault, inflight, resp>>

----------------------------------------------------------------------------
(* Maps (JavaScript Map): functions with a growing domain *)

EmptyMap == [k \in {} |-> 0]

Has(m, key) == key \in DOMAIN m

Put(m, key, v) == [k \in DOMAIN m \cup {key} |-> IF k = key THEN v ELSE m[k]]

Delete(m, key) == [k \in DOMAIN m \ {key} |-> m[k]]

\* Math.ceil(a / b) for b > 0
Ceil(a, b) == -((-a) \div b)

----------------------------------------------------------------------------
(* HTTP responses.  An absent field is the empty sequence.  Beside the     *)
(* fields of the response, a record keeps what the request was and what    *)
(* the middleware did: the Authorization header, the Principal attached as *)
(* req.user, how often next() was called by a gate, whether the route's    *)
(* handler ran, the user id the handler acted on, and whether a call of    *)
(* the data store threw while the request was handled.                     *)

Response(route, status, code) ==
    [route |-> route, status |-> status, code |-> code,
     email |-> "none", token |-> <<>>, lookup |-> FALSE,
     retryAfter |-> <<>>, attemptsRemaining |-> <<>>,
     accessToken |-> <<>>, refreshToken |-> <<>>,
     header |-> <<>>, principal |-> <<>>, nexts |-> 0, handled |-> FALSE,
     target |-> 0, repeat |-> FALSE, threw |-> FALSE]

NoResponse ==
    [route |-> "none", status |-> 0, code |-> "none",
     email |-> "none", token |-> <<>>, lookup |-> FALSE,
     retryAfter |-> <<>>, attemptsRemaining |-> <<>>,
     accessToken |-> <<>>, refreshToken |-> <<>>,
     header |-> <<>>, principal |-> <<>>, nexts |-> 0, handled |-> FALSE,
     target |-> 0, repeat |-> FALSE, threw |-> FALSE]

\* a response without a code field
NoCode == "none"

\* a catch block that answers 401, as if the failure were one of the
\* credentials
ServerErrorAs401(route) == Response(route, 401, "INVALID_CREDENTIALS")

\* the catch block of a route handler: res.status(500)
ServerError(route) == Response(route, 500, NoCode)

\* the response after a call of the data store threw inside the handler's
\* try block
StoreError(route) == [ServerError(route) EXCEPT !.threw = TRUE]

----------------------------------------------------------------------------
(* Rate limiter *)

LimMax(l) == IF l = "global" THEN maxRequests ELSE authMaxRequests

LimWin(l) == IF l = "global" THEN windowMs ELSE authWindowMs

\* rateLimit without the branch that resets an expired window
RateLimitNoReset(maxReq, winMs, store, key, t) ==
    IF ~Has(store, key)
    THEN [store |-> Put(store, key, [count |-> 1, resetTime |-> t + winMs]),
          allowed |-> TRUE, retryAfter |-> <<>>]
    ELSE LET record == store[key] IN
         IF record.count >= maxReq
         THEN [store |-> store, allowed |-> FALSE,
               retryAfter |-> <<Ceil(record.resetTime - t, MsPerSec)>>]
         ELSE [store |-> Put(store, key, [record EXCEPT !.count = @ + 1]),
               allowed |-> TRUE, retryAfter |-> <<>>]

\* rateLimit that lets a request of an open window pass without counting it
RateLimitUncounted(maxReq, winMs, store, key, t) ==
    IF ~Has(store, key)
    THEN [store |-> Put(store, key, [count |-> 1, resetTime |-> t + winMs]),
          allowed |-> TRUE, retryAfter |-> <<>>]
    ELSE LET record == store[key] IN
         IF t > record.resetTime
         THEN [store |-> Put(store, key, [count |-> 1, resetTime |-> t + winMs]),
               allowed |-> TRUE, retryAfter |-> <<>>]
         ELSE IF record.count > maxReq
         THEN [store |-> store, allowed |-> FALSE,
               retryAfter |-> <<Ceil(record.resetTime - t, MsPerSec)>>]
         ELSE [store |-> store, allowed |-> TRUE, retryAfter |-> <<>>]

\* the middleware returned by rateLimit(maxReq, winMs), run for client `key'
\* at time t on the Map `store'
RateLimit(maxReq, winMs, store, key, t) ==
    IF ~Has(store, key)
    THEN [store |-> Put(store, key, [count |-> 1, resetTime |-> t + winMs]),
          allowed |-> TRUE, retryAfter |-> <<>>]
    ELSE LET record == store[key] IN
         IF t > record.resetTime
         THEN [store |-> Put(store, key, [count |-> 1, resetTime |-> t + winMs]),
               allowed |-> TRUE, retryAfter |-> <<>>]
         ELSE IF record.count >= maxReq
         THEN [store |-> store, allowed |-> FALSE,
               retryAfter |-> <<Ceil(record.resetTime - t, MsPerSec)>>]
         ELSE [store |-> Put(store, key, [record EXCEPT !.count = @ + 1]),
               allowed |-> TRUE, retryAfter |-> <<>>]

\* the window of requests a limiter with window winMs sees for one client:
\* a request after the window's end starts the next window
SentNext(sent, key, t, winMs, cap) ==
    IF ~Has(sent, key) \/ t > sent[key].start + winMs
    THEN Put(sent, key, [start |-> t, n |-> 1])
    ELSE Put(sent, key, [sent[key] EXCEPT !.n = IF @ < cap THEN @ + 1 ELSE @])

\* one limiter of a route's chain, with the history it leaves
LimiterStep(l, c, t, st) ==
    LET r == RateLimit(LimMax(l), LimWin(l), st.store, c, t)
        o == RateLimit(LimMax(l), LimWin(l), st.own[l], c, t)
        s == SentNext(st.sent[l], c, t, LimWin(l), LimMax(l) + 2)
        entry == [lim |-> l, key |-> c, at |-> t,
                  before |-> IF Has(st.store, c) THEN <<st.store[c]>> ELSE <<>>,
                  after |-> r.store[c],
                  allowed |-> r.allowed, retryAfter |-> r.retryAfter,
                  ownAllowed |-> o.allowed, ownAfter |-> o.store[c],
                  n |-> s[c].n,
                  rejectedIn |-> st.rej[c]]
    IN [store |-> r.store,
        own |-> [st.own EXCEPT ![l] = o.store],
        sent |-> [st.sent EXCEPT ![l] = s],
        rej |-> [st.rej EXCEPT ![c] = IF r.allowed THEN <<>>
                                      ELSE <<st.store[c].resetTime>>],
        log |-> Append(st.log, entry),
        passed |-> r.allowed,
        retryAfter |-> r.retryAfter]

RECURSIVE Chain(_, _, _, _)
Chain(lims, c, t, st) ==
    IF lims = <<>> \/ ~st.passed THEN st
    ELSE Chain(Tail(lims), c, t, LimiterStep(Head(lims), c, t, st))

\* the limiters a request goes through before its handler: none when rate
\* limiting is disabled (rateLimit then returns a pass-through middleware)
Limit(lims, c) ==
    Chain(IF enableRateLimiting THEN lims ELSE <<>>, c, now,
          [store |-> rateLimitStore, own |-> rlOwn, sent |-> rlSent,
           rej |-> rlRejected, log |-> <<>>, passed |-> TRUE,
           retryAfter |-> <<>>])

TooManyRequests(route, st) ==
    [Response(route, 429, "RATE_LIMIT_EXCEEDED") EXCEPT
        !.retryAfter = st.retryAfter]

LimitVars(st) ==
    /\ rateLimitStore' = st.store
    /\ rlOwn' = st.own
    /\ rlSent' = st.sent
    /\ rlRejected' = st.rej
    /\ rlLog' = st.log

----------------------------------------------------------------------------
(* Login attempt guard *)

\* lockUntil: null
NoLock == 0

GuardResult(locked, remaining, attemptsLeft, message) ==
    [locked |-> locked, remainingSeconds |-> remaining,
     attemptsRemaining |-> attemptsLeft, message |-> message]

Unlocked == GuardResult(FALSE, <<>>, <<>>, "none")

TemporarilyLocked(lockUntil, t) ==
    GuardResult(TRUE, <<Ceil(lockUntil - t, MsPerSec)>>, <<>>, "temporarilyLocked")

\* trackLoginAttempt with the threshold compared by > instead of >=
TrackLoginAttemptLate(store, email, success, t) ==
    LET s1 == IF Has(store, email) THEN store
              ELSE Put(store, email, [attempts |-> 0, lockUntil |-> NoLock])
        record == s1[email]
        attempts == record.attempts + 1
    IN IF success
       THEN [store |-> Delete(s1, email), res |-> Unlocked]
       ELSE IF record.lockUntil # NoLock /\ t < record.lockUntil
       THEN [store |-> s1, res |-> TemporarilyLocked(record.lockUntil, t)]
       ELSE IF attempts > maxLoginAttempts
       THEN [store |-> Put(s1, email, [attempts |-> 0,
                                       lockUntil |-> t + lockoutDuration]),
             res |-> GuardResult(TRUE, <<Ceil(lockoutDuration, MsPerSec)>>,
                                 <<>>, "tooManyFailed")]
       ELSE [store |-> Put(s1, email, [record EXCEPT !.attempts = attempts]),
             res |-> GuardResult(FALSE, <<>>,
                                 <<maxLoginAttempts - attempts>>, "none")]

\* trackLoginAttempt without the check of a running lock
TrackLoginAttemptNoLockCheck(store, email, success, t) ==
    LET s1 == IF Has(store, email) THEN store
              ELSE Put(store, email, [attempts |-> 0, lockUntil |-> NoLock])
        record == s1[email]
        attempts == record.attempts + 1
    IN IF success
       THEN [store |-> Delete(s1, email), res |-> Unlocked]
       ELSE IF attempts >= maxLoginAttempts
       THEN [store |-> Put(s1, email, [attempts |-> 0,
                                       lockUntil |-> t + lockoutDuration]),
             res |-> GuardResult(TRUE, <<Ceil(lockoutDuration, MsPerSec)>>,
                                 <<>>, "tooManyFailed")]
       ELSE [store |-> Put(s1, email, [record EXCEPT !.attempts = attempts]),
             res |-> GuardResult(FALSE, <<>>,
                                 <<maxLoginAttempts - attempts>>, "none")]

\* the address in lower case
LowerCase(email) == IF email = "Prof@x.edu" THEN "prof@x.edu" ELSE email

\* trackLoginAttempt with the Map keyed by the address in lower case
TrackLoginAttemptNoCase(store, email, success, t) ==
    LET key == LowerCase(email)
        s1 == IF Has(store, key) THEN store
              ELSE Put(store, key, [attempts |-> 0, lockUntil |-> NoLock])
        record == s1[key]
        attempts == record.attempts + 1
    IN IF success
       THEN [store |-> Delete(s1, key), res |-> Unlocked]
       ELSE IF record.lockUntil # NoLock /\ t < record.lockUntil
       THEN [store |-> s1, res |-> TemporarilyLocked(record.lockUntil, t)]
       ELSE IF attempts >= maxLoginAttempts
       THEN [store |-> Put(s1, key, [attempts |-> 0,
                                     lockUntil |-> t + lockoutDuration]),
             res |-> GuardResult(TRUE, <<Ceil(lockoutDuration, MsPerSec)>>,
                                 <<>>, "tooManyFailed")]
       ELSE [store |-> Put(s1, key, [record EXCEPT !.attempts = attempts]),
             res |-> GuardResult(FALSE, <<>>,
                                 <<maxLoginAttempts - attempts>>, "none")]

\* trackLoginAttempt that keeps the count when it sets the lock
TrackLoginAttemptKeepCount(store, email, success, t) ==
    LET s1 == IF Has(store, email) THEN store
              ELSE Put(store, email, [attempts |-> 0, lockUntil |-> NoLock])
        record == s1[email]
        attempts == record.attempts + 1
    IN IF success
       THEN [store |-> Delete(s1, email), res |-> Unlocked]
       ELSE IF record.lockUntil # NoLock /\ t < record.lockUntil
       THEN [store |-> s1, res |-> TemporarilyLocked(record.lockUntil, t)]
       ELSE IF attempts >= maxLoginAttempts
       THEN [store |-> Put(s1, email, [attempts |-> attempts,
                                       lockUntil |-> t + lockoutDuration]),
             res |-> GuardResult(TRUE, <<Ceil(lockoutDuration, MsPerSec)>>,
                                 <<>>, "tooManyFailed")]
       ELSE [store |-> Put(s1, email, [record EXCEPT !.attempts = attempts]),
             res |-> GuardResult(FALSE, <<>>,
                                 <<maxLoginAttempts - attempts>>, "none")]

\* trackLoginAttempt(email, success) at time t on the Map `store'
TrackLoginAttempt(store, email, success, t) ==
    LET s1 == IF Has(store, email) THEN store
              ELSE Put(store, email, [attempts |-> 0, lockUntil |-> NoLock])
        record == s1[email]
        attempts == record.attempts + 1
    IN IF success
       THEN [store |-> Delete(s1, email), res |-> Unlocked]
       ELSE IF record.lockUntil # NoLock /\ t < record.lockUntil
       THEN [store |-> s1, res |-> TemporarilyLocked(record.lockUntil, t)]
       ELSE IF attempts >= maxLoginAttempts
       THEN [store |-> Put(s1, email, [attempts |-> 0,
                                       lockUntil |-> t + lockoutDuration]),
             res |-> GuardResult(TRUE, <<Ceil(lockoutDuration, MsPerSec)>>,
                                 <<>>, "tooManyFailed")]
       ELSE [store |-> Put(s1, email, [record EXCEPT !.attempts = attempts]),
             res |-> GuardResult(FALSE, <<>>,
                                 <<maxLoginAttempts - attempts>>, "none")]

\* isAccountLocked with the expiry compared by <= instead of <
IsAccountLockedLate(store, email, t) ==
    IF ~Has(store, email) \/ store[email].lockUntil = NoLock
    THEN [store |-> store, res |-> Unlocked]
    ELSE IF t <= store[email].lockUntil
    THEN [store |-> store, res |-> TemporarilyLocked(store[email].lockUntil, t)]
    ELSE [store |-> Delete(store, email), res |-> Unlocked]

\* isAccountLocked that takes a lock whose record holds no attempts for none
IsAccountLockedLax(store, email, t) ==
    IF ~Has(store, email) \/ store[email].lockUntil = NoLock
                          \/ store[email].attempts = 0
    THEN [store |-> store, res |-> Unlocked]
    ELSE IF t < store[email].lockUntil
    THEN [store |-> store, res |-> TemporarilyLocked(store[email].lockUntil, t)]
    ELSE [store |-> Delete(store, email), res |-> Unlocked]

\* isAccountLocked(email) at time t on the Map `store'
IsAccountLocked(store, email, t) ==
    IF ~Has(store, email) \/ store[email].lockUntil = NoLock
    THEN [store |-> store, res |-> Unlocked]
    ELSE IF t < store[email].lockUntil
    THEN [store |-> store, res |-> TemporarilyLocked(store[email].lockUntil, t)]
    ELSE [store |-> Delete(store, email), res |-> Unlocked]

\* the guard's state with its history: g = [store, streak, call]
StreakNext(old, store, email, failed) ==
    IF ~Has(store, email) THEN 0
    ELSE IF failed /\ old <= maxLoginAttempts THEN old + 1
    ELSE old

GuardCall(fn, email, success, t, g, r) ==
    LET n == StreakNext(g.streak[email], r.store, email,
                        fn = "trackLoginAttempt" /\ ~success)
    IN [store |-> r.store,
        streak |-> [g.streak EXCEPT ![email] = n],
        call |-> [fn |-> fn, email |-> email, success |-> success, at |-> t,
                  before |-> IF Has(g.store, email) THEN <<g.store[email]>>
                             ELSE <<>>,
                  res |-> r.res, streak |-> n]]

GuardTrack(g, email, success, t) ==
    GuardCall("trackLoginAttempt", email, success, t, g,
              TrackLoginAttempt(g.store, email, success, t))

GuardIsLocked(g, email, t) ==
    GuardCall("isAccountLocked", email, FALSE, t, g,
              IsAccountLocked(g.store, email, t))

Guard == [store |-> loginAttempts, streak |-> streak, call |-> call]

GuardVars(g) ==
    /\ loginAttempts' = g.store
    /\ streak' = g.streak
    /\ call' = g.call

NoCall == [fn |-> "none", email |-> "none", success |-> FALSE, at |-> 0,
           before |-> <<>>, res |-> Unlocked, streak |-> 0]

----------------------------------------------------------------------------
(* Data store *)

\* storeFault = [call |-> k, applied |-> a]: the k-th data-store call made by
\* the next request throws; for db.run, which executes the statement and then
\* saves the database file, `applied' tells whether the statement had taken
\* effect when it threw.  call = 0: no call throws.
NoFault == [call |-> 0, applied |-> FALSE]

Throws(k) == storeFault.call = k

\* the rows a db.run that may throw leaves: `after' unless it is the k-th
\* call, throws and has not taken effect
RunResult(k, before, after) ==
    IF Throws(k) /\ ~storeFault.applied THEN before ELSE after

\* the seeded users, one professor and one admin; the stored bcrypt hash is
\* modelled by the password it was made from
SeedUsers ==
    [id \in {1, 2} |->
        IF id = 1
        THEN [id |-> 1, email |-> "prof@x.edu", password |-> "demo123",
              role |-> "professor"]
        ELSE [id |-> 2, email |-> "admin@x.edu", password |-> "admin123",
              role |-> "admin"]]

\* db.get('SELECT * FROM users WHERE email = ?'): the row, or null
FindUserByEmail(email) ==
    IF \E id \in DOMAIN users : users[id].email = email
    THEN <<users[CHOOSE id \in DOMAIN users : users[id].email = email]>>
    ELSE <<>>

\* db.get('SELECT id, email, name, role FROM users WHERE id = ?')
FindUserById(id) == IF id \in DOMAIN users THEN <<users[id]>> ELSE <<>>

\* password.length of the passwords submitted
PasswordLength(password) ==
    CASE password = "demo123" -> 7
      [] password = "admin123" -> 8
      [] password = "wrong" -> 5
      [] password = "changed456" -> 10
      [] OTHER -> 0

\* db.get('SELECT password FROM users WHERE id = ?')
FindPasswordById(id) == IF id \in DOMAIN users THEN <<users[id].password>> ELSE <<>>

\* UPDATE users SET password = ? WHERE id = ?
UpdatePassword(rows, id, hash) ==
    IF id \in DOMAIN rows THEN [rows EXCEPT ![id].password = hash] ELSE rows

\* DELETE FROM users WHERE id = ?
DeleteUser(rows, id) == [k \in DOMAIN rows \ {id} |-> rows[k]]

\* bcrypt.compare(password, hash)
BcryptCompare(password, hash) == password = hash

\* seconds of a millisecond time, as Math.floor(Date.now() / 1000) and as
\* SQLite's datetime('now')
Sec(t) == t \div MsPerSec

\* INSERT INTO refresh_tokens (user_id, token, expires_at)
\*     VALUES (?, ?, datetime('now', '+7 days'))
\* Rows are kept without their autoincrement id: two rows equal in user_id,
\* token and expires_at are one element, and no query here tells them apart.
InsertRefreshToken(rows, userId, token, t) ==
    rows \cup {[user_id |-> userId, token |-> token,
                expires_at |-> Sec(t) + storedTokenLifetime]}

\* SELECT * FROM refresh_tokens WHERE user_id = ? AND token = ?
\*     AND expires_at > datetime('now')
FindValidRefreshToken(rows, userId, token, t) ==
    {r \in rows : r.user_id = userId /\ r.token = token /\ r.expires_at > Sec(t)}

\* DELETE FROM refresh_tokens WHERE user_id = ? AND token = ?
DeleteRefreshToken(rows, userId, token) ==
    {r \in rows : ~(r.user_id = userId /\ r.token = token)}

\* DELETE FROM refresh_tokens WHERE user_id = ?
DeleteAllRefreshTokens(rows, userId) == {r \in rows : r.user_id # userId}

----------------------------------------------------------------------------
(* Token service.  A token is its claims and the key that signed it: the   *)
(* same claims signed with the same key are the same string.               *)

Issuer == "EduPay Platform"
Audience == "EduPay Users"

\* generateAccessToken that signs with the refresh secret
GenerateAccessTokenWrongKey(user, t) ==
    [id |-> user.id, email |-> user.email, role |-> user.role, type |-> "none",
     iat |-> Sec(t), exp |-> Sec(t) + accessTokenExpiry,
     iss |-> Issuer, aud |-> Audience, key |-> "refreshSecret"]

\* generateAccessToken(user), signed at time t
GenerateAccessToken(user, t) ==
    [id |-> user.id, email |-> user.email, role |-> user.role, type |-> "none",
     iat |-> Sec(t), exp |-> Sec(t) + accessTokenExpiry,
     iss |-> Issuer, aud |-> Audience, key |-> "secret"]

\* generateRefreshToken(user), signed at time t
GenerateRefreshToken(user, t) ==
    [id |-> user.id, email |-> "none", role |-> "none", type |-> "refresh",
     iat |-> Sec(t), exp |-> Sec(t) + refreshTokenExpiry,
     iss |-> "none", aud |-> "none", key |-> "refreshSecret"]

\* a token whose claims were altered or that was signed with another key
Forged(token) == [token EXCEPT !.key = "forged"]

\* jwt.verify(token, secret, options) at time t: the signature, then the
\* expiry, then (when asked for) the audience and the issuer
JwtVerify(token, secret, withClaims, t) ==
    IF token.key # secret THEN "JsonWebTokenError"
    ELSE IF Sec(t) >= token.exp THEN "TokenExpiredError"
    ELSE IF withClaims /\ (token.aud # Audience \/ token.iss # Issuer)
    THEN "JsonWebTokenError"
    ELSE "ok"

\* verifyRefreshToken(token): the decoded claims, or null
VerifyRefreshToken(token, t) ==
    IF JwtVerify(token, "refreshSecret", FALSE, t) = "ok" THEN <<token>> ELSE <<>>

\* the Authorization header: <<>> when absent, <<tk>> for 'Bearer tk', and
\* <<scheme, tk>> for a header that starts with another scheme
StartsWithBearer(header) == Len(header) = 1

\* authenticate that verifies the signature and the expiry only
AuthenticateNoClaims(route, header, t) ==
    IF ~StartsWithBearer(header)
    THEN [Response(route, 401, "MISSING_TOKEN") EXCEPT !.header = header]
    ELSE LET v == JwtVerify(header[1], "secret", FALSE, t) IN
         IF v = "ok"
         THEN [Response(route, 0, "next") EXCEPT
                  !.header = header, !.principal = header, !.nexts = 1]
         ELSE IF v = "TokenExpiredError"
         THEN [Response(route, 401, "TOKEN_EXPIRED") EXCEPT !.header = header]
         ELSE [Response(route, 401, "INVALID_TOKEN") EXCEPT !.header = header]

\* authenticate that answers every verification error alike
AuthenticateOneError(route, header, t) ==
    IF ~StartsWithBearer(header)
    THEN [Response(route, 401, "MISSING_TOKEN") EXCEPT !.header = header]
    ELSE LET v == JwtVerify(header[1], "secret", TRUE, t) IN
         IF v = "ok"
         THEN [Response(route, 0, "next") EXCEPT
                  !.header = header, !.principal = header, !.nexts = 1]
         ELSE [Response(route, 401, "INVALID_TOKEN") EXCEPT !.header = header]

\* authenticate that also looks the token's user up in the table users
AuthenticateKnownUser(route, header, t) ==
    IF ~StartsWithBearer(header)
    THEN [Response(route, 401, "MISSING_TOKEN") EXCEPT !.header = header]
    ELSE LET v == JwtVerify(header[1], "secret", TRUE, t) IN
         IF v = "ok" /\ header[1].id \in DOMAIN users
         THEN [Response(route, 0, "next") EXCEPT
                  !.header = header, !.principal = header, !.nexts = 1]
         ELSE IF v = "TokenExpiredError"
         THEN [Response(route, 401, "TOKEN_EXPIRED") EXCEPT !.header = header]
         ELSE [Response(route, 401, "INVALID_TOKEN") EXCEPT !.header = header]

\* authenticate: the response it sends, or status 0 when it calls next()
\* with req.user set
Authenticate(route, header, t) ==
    IF ~StartsWithBearer(header)
    THEN [Response(route, 401, "MISSING_TOKEN") EXCEPT !.header = header]
    ELSE LET v == JwtVerify(header[1], "secret", TRUE, t) IN
         IF v = "ok"
         THEN [Response(route, 0, "next") EXCEPT
                  !.header = header, !.principal = header, !.nexts = 1]
         ELSE IF v = "TokenExpiredError"
         THEN [Response(route, 401, "TOKEN_EXPIRED") EXCEPT !.header = header]
         ELSE [Response(route, 401, "INVALID_TOKEN") EXCEPT !.header = header]

\* optionalAuth: it always calls next(), with req.user set when the header
\* carries a token that jwt.verify(token, secret) accepts
OptionalAuth(route, header, t) ==
    IF StartsWithBearer(header)
       /\ JwtVerify(header[1], "secret", FALSE, t) = "ok"
    THEN [Response(route, 0, "next") EXCEPT
             !.header = header, !.principal = header, !.nexts = 1]
    ELSE [Response(route, 0, "next") EXCEPT !.header = header, !.nexts = 1]

\* the tokens a client can present: those returned to clients, and forgeries
Presentable == issued \cup {Forged(tk) : tk \in issued}

\* the bearer tokens tried on /logout: access tokens and forgeries of them
Bearers == {tk \in Presentable : tk.type = "none"}

\* the refresh tokens clients hold
RefreshTokens == {tk \in issued : tk.type = "refresh"}

----------------------------------------------------------------------------
(* Actions *)

Tick ==
    /\ now < MaxTime
    /\ now' = now + TickMs
    /\ UNCHANGED <<enableRateLimiting, rlVars, guardVars, dbVars, storeFault,
                   inflight, resp>>

\* a request to a route under /api/ that has no limiter of its own
ApiRequest(c) ==
    LET st == Limit(<<"global">>, c) IN
    /\ LimitVars(st)
    /\ resp' = IF st.passed THEN Response("api", 200, "OK")
               ELSE TooManyRequests("api", st)
    /\ UNCHANGED <<now, enableRateLimiting, guardVars, dbVars, storeFault,
                   inflight>>

\* A submitted string is a sequence of pieces: a blank, "<", ">", "@", "." or a
\* run of other characters.
Blank == " "

\* String.prototype.trim: the string without its leading blanks ...
RECURSIVE TrimStart(_)
TrimStart(str) ==
    IF str # <<>> /\ str[1] = Blank THEN TrimStart(Tail(str)) ELSE str

\* ... and without its trailing blanks
RECURSIVE TrimEnd(_)
TrimEnd(str) ==
    IF str # <<>> /\ str[Len(str)] = Blank
    THEN TrimEnd(SubSeq(str, 1, Len(str) - 1))
    ELSE str

NotAngle(piece) == piece \notin {"<", ">"}

\* sanitizeString: str.trim().replace(/[<>]/g, ''); the strings of the model
\* are shorter than the 10000 characters of substring
SanitizeString(str) == SelectSeq(TrimEnd(TrimStart(str)), NotAngle)

\* patterns.email, /^[^\s@]+@[^\s@]+\.[^\s@]+$/
IsEmail(str) ==
    /\ \A k \in DOMAIN str : str[k] # Blank
    /\ \E a \in DOMAIN str :
          /\ str[a] = "@"
          /\ \A k \in DOMAIN str : str[k] = "@" => k = a
          /\ a > 1
          /\ \E d \in DOMAIN str : str[d] = "." /\ a + 1 < d /\ d < Len(str)

\* the JavaScript string made of the pieces
RECURSIVE Join(_)
Join(str) == IF str = <<>> THEN "" ELSE str[1] \o Join(Tail(str))

\* POST /login after its limiters and validate(schemas.login), up to the
\* response or to the await of bcrypt.compare; `submitted' is the email string
\* of the request body before validate replaced it by `email'
LoginHandlerAmong(limit, submitted, email, password) ==
    LET g == GuardIsLocked(Guard, email, now)
        user == FindUserByEmail(email)
    IN IF g.call.res.locked
       THEN /\ GuardVars(g)
            /\ resp' = [Response("login", 423, "ACCOUNT_LOCKED") EXCEPT
                            !.email = email,
                            !.retryAfter = g.call.res.remainingSeconds]
            /\ UNCHANGED <<dbVars, inflight>>
       ELSE IF Throws(1)
       THEN /\ GuardVars(g)
            /\ resp' = [StoreError("login") EXCEPT !.email = email]
            /\ UNCHANGED <<dbVars, inflight>>
       ELSE IF user = <<>>
       THEN /\ GuardVars(GuardTrack(g, email, FALSE, now))
            /\ resp' = [Response("login", 401, "INVALID_CREDENTIALS") EXCEPT
                            !.email = email, !.lookup = TRUE]
            /\ UNCHANGED <<dbVars, inflight>>
       ELSE /\ Len(inflight) < limit
            /\ GuardVars(g)
            /\ inflight' = Append(inflight, [op |-> "login", email |-> email,
                                             submitted |-> submitted,
                                             password |-> password,
                                             user |-> user[1]])
            /\ UNCHANGED <<dbVars, resp>>

\* the handler of POST /login with at most MaxInflight requests suspended
LoginHandler(submitted, email, password) ==
    LoginHandlerAmong(MaxInflight, submitted, email, password)

\* POST /api/v2/auth/login from client c with an email that validate leaves
\* as it is: the global limiter, the auth limiter, then the handler
LoginAmong(limit, c, email, password) ==
    LET st == Limit(<<"global", "auth">>, c) IN
    /\ LimitVars(st)
    /\ IF st.passed THEN LoginHandlerAmong(limit, <<email>>, email, password)
       ELSE /\ resp' = TooManyRequests("login", st)
            /\ UNCHANGED <<guardVars, dbVars, inflight>>
    /\ storeFault' = NoFault
    /\ UNCHANGED <<now, enableRateLimiting>>

\* the same with at most MaxInflight requests suspended
Login(c, email, password) == LoginAmong(MaxInflight, c, email, password)

\* POST /api/v2/auth/login from client c with the email string `raw' as it
\* was submitted: the two limiters, validate(schemas.login), which sanitises
\* the body and answers 400 unless the email matches the pattern, then the
\* handler. The passwords of the model are left as they are by sanitizeString.
LoginRequest(c, raw, password) ==
    LET st == Limit(<<"global", "auth">>, c)
        email == SanitizeString(raw)
    IN /\ LimitVars(st)
       /\ IF ~st.passed
          THEN /\ resp' = TooManyRequests("login", st)
               /\ UNCHANGED <<guardVars, dbVars, inflight>>
          ELSE IF ~IsEmail(email)
          THEN /\ resp' = Response("login", 400, NoCode)
               /\ UNCHANGED <<guardVars, dbVars, inflight>>
          ELSE LoginHandler(raw, Join(email), password)
       /\ storeFault' = NoFault
       /\ UNCHANGED <<now, enableRateLimiting>>

\* the password test of the legacy route: 'demo123' for the addresses of the
\* professors, 'admin123' for those of the administrators
LegacyPassword(email, password) ==
    \/ email = "prof@x.edu" /\ password = "demo123"
    \/ email = "admin@x.edu" /\ password = "admin123"

\* POST /api/auth/login, the legacy route of server.js, from client c: the
\* global limiter of /api/, then the handler; data-store call 1 reads the
\* user, call 2 inserts the activity log entry
LegacyLogin(c, email, password) ==
    LET st == Limit(<<"global">>, c)
        user == FindUserByEmail(email)
    IN /\ LimitVars(st)
       /\ resp' = IF ~st.passed THEN TooManyRequests("legacyLogin", st)
                  ELSE IF Throws(1)
                  THEN [StoreError("legacyLogin") EXCEPT !.email = email]
                  ELSE IF user # <<>> /\ LegacyPassword(email, password)
                  THEN IF Throws(2)
                       THEN [StoreError("legacyLogin") EXCEPT
                                !.email = email, !.lookup = TRUE]
                       ELSE [Response("legacyLogin", 200, "OK") EXCEPT
                                !.email = email, !.lookup = TRUE]
                  ELSE [Response("legacyLogin", 401, NoCode) EXCEPT
                           !.email = email, !.lookup = TRUE]
       /\ storeFault' = NoFault
       /\ UNCHANGED <<now, enableRateLimiting, guardVars, dbVars, inflight>>

\* the suspended requests without the i-th
Resumed(i) == SubSeq(inflight, 1, i - 1) \o SubSeq(inflight, i + 1, Len(inflight))

\* POST /login resumed after bcrypt.compare, for the i-th suspended request:
\* data-store call 1 inserts the refresh token, call 2 the activity log entry
LoginFinish(i) ==
    LET rq == inflight[i]
        g == GuardTrack(Guard, rq.email,
                        BcryptCompare(rq.password, rq.user.password), now)
        accessToken == GenerateAccessToken(rq.user, now)
        refreshToken == GenerateRefreshToken(rq.user, now)
    IN /\ rq.op = "login"
       /\ inflight' = Resumed(i)
       /\ GuardVars(g)
       /\ IF ~BcryptCompare(rq.password, rq.user.password)
          THEN /\ resp' = [Response("login", 401, "INVALID_CREDENTIALS") EXCEPT
                               !.email = rq.email, !.lookup = TRUE,
                               !.attemptsRemaining = g.call.res.attemptsRemaining]
               /\ UNCHANGED dbVars
          ELSE /\ refresh_tokens' =
                      RunResult(1, refresh_tokens,
                                InsertRefreshToken(refresh_tokens, rq.user.id,
                                                   refreshToken, now))
               /\ IF Throws(1) \/ Throws(2)
                  THEN /\ resp' = [StoreError("login") EXCEPT
                                       !.email = rq.email, !.lookup = TRUE]
                       /\ UNCHANGED issued
                  ELSE /\ issued' = issued \cup {accessToken, refreshToken}
                       /\ resp' = [Response("login", 200, "OK") EXCEPT
                                       !.email = rq.email, !.lookup = TRUE,
                                       !.accessToken = <<accessToken>>,
                                       !.refreshToken = <<refreshToken>>]
               /\ UNCHANGED <<users, revoked, purged>>
       /\ storeFault' = NoFault
       /\ UNCHANGED <<now, enableRateLimiting, rlVars>>

\* POST /refresh without the lookup of the stored token
RefreshResponseUnchecked(body, rows, t) ==
    IF body = <<>> THEN Response("refresh", 400, "MISSING_REFRESH_TOKEN")
    ELSE LET decoded == VerifyRefreshToken(body[1], t) IN
         IF decoded = <<>>
         THEN [Response("refresh", 401, "INVALID_REFRESH_TOKEN") EXCEPT
                  !.token = body]
         ELSE IF Throws(1) THEN [StoreError("refresh") EXCEPT !.token = body]
         ELSE IF FindUserById(decoded[1].id) = <<>>
         THEN [Response("refresh", 401, "USER_NOT_FOUND") EXCEPT !.token = body]
         ELSE [Response("refresh", 200, "OK") EXCEPT
                  !.token = body,
                  !.accessToken =
                      <<GenerateAccessToken(FindUserById(decoded[1].id)[1], t)>>]

\* POST /refresh that also returns a refresh token minted for the user
RefreshResponseRotating(body, rows, t) ==
    IF body = <<>> THEN Response("refresh", 400, "MISSING_REFRESH_TOKEN")
    ELSE LET decoded == VerifyRefreshToken(body[1], t) IN
         IF decoded = <<>>
         THEN [Response("refresh", 401, "INVALID_REFRESH_TOKEN") EXCEPT
                  !.token = body]
         ELSE IF Throws(1) THEN [StoreError("refresh") EXCEPT !.token = body]
         ELSE IF FindValidRefreshToken(rows, decoded[1].id, body[1], t) = {}
         THEN [Response("refresh", 401, "TOKEN_NOT_FOUND") EXCEPT !.token = body]
         ELSE IF Throws(2) THEN [StoreError("refresh") EXCEPT !.token = body]
         ELSE IF FindUserById(decoded[1].id) = <<>>
         THEN [Response("refresh", 401, "USER_NOT_FOUND") EXCEPT !.token = body]
         ELSE [Response("refresh", 200, "OK") EXCEPT
                  !.token = body,
                  !.accessToken =
                      <<GenerateAccessToken(FindUserById(decoded[1].id)[1], t)>>,
                  !.refreshToken =
                      <<GenerateRefreshToken(FindUserById(decoded[1].id)[1], t)>>]

\* the response of POST /refresh to the body's refreshToken (<<>>: none);
\* data-store call 1 reads the stored token, call 2 the user
RefreshResponse(body, rows, t) ==
    IF body = <<>> THEN Response("refresh", 400, "MISSING_REFRESH_TOKEN")
    ELSE LET decoded == VerifyRefreshToken(body[1], t) IN
         IF decoded = <<>>
         THEN [Response("refresh", 401, "INVALID_REFRESH_TOKEN") EXCEPT
                  !.token = body]
         ELSE IF Throws(1) THEN [StoreError("refresh") EXCEPT !.token = body]
         ELSE IF FindValidRefreshToken(rows, decoded[1].id, body[1], t) = {}
         THEN [Response("refresh", 401, "TOKEN_NOT_FOUND") EXCEPT !.token = body]
         ELSE IF Throws(2) THEN [StoreError("refresh") EXCEPT !.token = body]
         ELSE IF FindUserById(decoded[1].id) = <<>>
         THEN [Response("refresh", 401, "USER_NOT_FOUND") EXCEPT !.token = body]
         ELSE [Response("refresh", 200, "OK") EXCEPT
                  !.token = body,
                  !.accessToken =
                      <<GenerateAccessToken(FindUserById(decoded[1].id)[1], t)>>]

\* POST /api/v2/auth/refresh from client c
Refresh(c, body) ==
    LET st == Limit(<<"global">>, c)
        r == RefreshResponse(body, refresh_tokens, now)
    IN /\ LimitVars(st)
       /\ IF st.passed
          THEN /\ resp' = [r EXCEPT !.repeat = /\ r.status = 200
                                               /\ resp.route = "refresh"
                                               /\ resp.status = 200
                                               /\ resp.token = body]
               /\ issued' = issued \cup {r.accessToken[i] : i \in DOMAIN r.accessToken}
          ELSE /\ resp' = TooManyRequests("refresh", st)
               /\ UNCHANGED issued
       /\ storeFault' = NoFault
       /\ UNCHANGED <<now, enableRateLimiting, guardVars, users, refresh_tokens,
                      revoked, purged, inflight>>

\* POST /logout whose DELETE by token leaves the user id out
LogoutRowsAnyUser(rows, userId, body) ==
    IF body # <<>> THEN {r \in rows : r.token # body[1]}
    ELSE DeleteAllRefreshTokens(rows, userId)

\* the rows POST /logout leaves for the authenticated user id
LogoutRows(rows, userId, body) ==
    IF body # <<>> THEN DeleteRefreshToken(rows, userId, body[1])
    ELSE DeleteAllRefreshTokens(rows, userId)

\* the refresh tokens returned so far to user userId
IssuedTo(userId) == {tk \in RefreshTokens : tk.id = userId}

\* the refresh tokens of user userId that a logout with this body names:
\* the one in the body, or all of the user's when the body has none
Named(userId, body) ==
    {tk \in RefreshTokens : tk.id = userId /\ (body # <<>> => tk = body[1])}

\* POST /api/v2/auth/logout from client c with the Authorization header
\* `header'; data-store call 1 is the DELETE
Logout(c, header, body) ==
    LET st == Limit(<<"global">>, c)
        auth == Authenticate("logout", header, now)
    IN /\ LimitVars(st)
       /\ IF ~st.passed
          THEN /\ resp' = TooManyRequests("logout", st)
               /\ UNCHANGED <<refresh_tokens, revoked, purged>>
          ELSE IF auth.status # 0
          THEN /\ resp' = [auth EXCEPT !.token = body]
               /\ UNCHANGED <<refresh_tokens, revoked, purged>>
          ELSE /\ refresh_tokens' =
                      RunResult(1, refresh_tokens,
                                LogoutRows(refresh_tokens, header[1].id, body))
               /\ IF Throws(1)
                  THEN /\ resp' = [StoreError("logout") EXCEPT
                                       !.token = body, !.header = header,
                                       !.principal = header, !.handled = TRUE,
                                       !.target = header[1].id]
                       /\ UNCHANGED <<revoked, purged>>
                  ELSE /\ revoked' = revoked \cup Named(header[1].id, body)
                       /\ purged' = IF body = <<>>
                                    THEN purged \cup IssuedTo(header[1].id)
                                    ELSE purged
                       /\ resp' = [Response("logout", 200, "OK") EXCEPT
                                       !.token = body, !.header = header,
                                       !.principal = header, !.handled = TRUE,
                                       !.target = header[1].id]
       /\ storeFault' = NoFault
       /\ UNCHANGED <<now, enableRateLimiting, guardVars, users, issued, inflight>>

\* authorize that lets every authenticated user pass
AuthorizeAnyRole(route, user, allowedRoles) ==
    IF user = <<>> THEN Response(route, 401, "AUTH_REQUIRED")
    ELSE [Response(route, 0, "next") EXCEPT
             !.header = user, !.principal = user, !.nexts = 1]

\* authorize(...allowedRoles) for the request's user (<<>>: req.user not set):
\* the response it sends, or status 0 when it calls next()
Authorize(route, user, allowedRoles) ==
    IF user = <<>> THEN Response(route, 401, "AUTH_REQUIRED")
    ELSE IF user[1].role \notin allowedRoles
    THEN [Response(route, 403, "FORBIDDEN") EXCEPT
             !.header = user, !.principal = user]
    ELSE [Response(route, 0, "next") EXCEPT
             !.header = user, !.principal = user, !.nexts = 1]

\* authenticate, then authorize(...allowedRoles)
Guarded(route, header, allowedRoles, t) ==
    LET auth == Authenticate(route, header, t) IN
    IF auth.status # 0 THEN auth
    ELSE Authorize(route, auth.principal, allowedRoles)

\* GET /api/v2/auth/profile, a route guarded by authenticate alone;
\* data-store call 1 reads the user
GetProfile(c, header) ==
    LET st == Limit(<<"global">>, c)
        auth == Authenticate("profile", header, now)
    IN /\ LimitVars(st)
       /\ resp' = IF ~st.passed THEN TooManyRequests("profile", st)
                  ELSE IF auth.status # 0 THEN auth
                  ELSE IF Throws(1)
                  THEN [StoreError("profile") EXCEPT
                           !.header = header, !.principal = header,
                           !.handled = TRUE]
                  ELSE IF FindUserById(header[1].id) = <<>>
                  THEN [Response("profile", 404, NoCode) EXCEPT
                           !.header = header, !.principal = header,
                           !.handled = TRUE]
                  ELSE [Response("profile", 200, "OK") EXCEPT
                           !.header = header, !.principal = header,
                           !.handled = TRUE]
       /\ storeFault' = NoFault
       /\ UNCHANGED <<now, enableRateLimiting, guardVars, dbVars, inflight>>

\* a request through optionalAuth, then the next stage
OptionalRequest(header) ==
    /\ resp' = OptionalAuth("optional", header, now)
    /\ UNCHANGED <<now, enableRateLimiting, rlVars, guardVars, dbVars,
                   storeFault, inflight>>

\* the data store fails at the k-th call of the next request
StoreFault(k, applied) ==
    /\ storeFault = NoFault
    /\ storeFault' = [call |-> k, applied |-> applied]
    /\ UNCHANGED <<now, enableRateLimiting, rlVars, guardVars, dbVars, inflight,
                   resp>>

\* POST /api/v2/auth/change-password up to the await of bcrypt.compare; body
\* is <<>> when a password field is missing; data-store call 1 reads the user
ChangePassword(c, header, body) ==
    LET st == Limit(<<"global">>, c)
        auth == Authenticate("changePassword", header, now)
        user == FindPasswordById(header[1].id)
    IN /\ LimitVars(st)
       /\ IF ~st.passed
          THEN /\ resp' = TooManyRequests("changePassword", st)
               /\ UNCHANGED inflight
          ELSE IF auth.status # 0
          THEN /\ resp' = auth
               /\ UNCHANGED inflight
          ELSE IF body = <<>>
          THEN /\ resp' = [Response("changePassword", 400, NoCode) EXCEPT
                               !.header = header, !.principal = header,
                               !.handled = TRUE]
               /\ UNCHANGED inflight
          ELSE IF Throws(1) \/ user = <<>>
          THEN \* the call throws, or user is null and user.password throws
               /\ resp' = [ServerError("changePassword") EXCEPT
                               !.header = header, !.principal = header,
                               !.handled = TRUE, !.threw = Throws(1)]
               /\ UNCHANGED inflight
          ELSE /\ Len(inflight) < MaxInflight
               /\ inflight' = Append(inflight,
                      [op |-> "changePassword", phase |-> "compare",
                       id |-> header[1].id, principal |-> header,
                       hash |-> user[1],
                       currentPassword |-> body[1].currentPassword,
                       newPassword |-> body[1].newPassword])
               /\ UNCHANGED resp
       /\ storeFault' = NoFault
       /\ UNCHANGED <<now, enableRateLimiting, guardVars, dbVars>>

\* POST /change-password resumed after bcrypt.compare: a 401, or the awaits
\* of bcrypt.genSalt and bcrypt.hash, between which no state is touched
ChangePasswordCompared(i) ==
    LET rq == inflight[i] IN
    /\ rq.op = "changePassword"
    /\ rq.phase = "compare"
    /\ IF ~BcryptCompare(rq.currentPassword, rq.hash)
       THEN /\ inflight' = Resumed(i)
            /\ resp' = [Response("changePassword", 401, NoCode) EXCEPT
                            !.header = rq.principal, !.principal = rq.principal,
                            !.handled = TRUE, !.target = rq.id]
       ELSE /\ inflight' = [inflight EXCEPT ![i].phase = "hash"]
            /\ UNCHANGED resp
    /\ UNCHANGED <<now, enableRateLimiting, rlVars, guardVars, dbVars, storeFault>>

\* the end of a handler that sets a user's password: data-store call 1 is
\* the UPDATE of users, call 2 the DELETE of the user's refresh tokens
SetPassword(route, i) ==
    LET rq == inflight[i] IN
    /\ inflight' = Resumed(i)
    /\ users' = RunResult(1, users, UpdatePassword(users, rq.id, rq.newPassword))
    /\ refresh_tokens' =
           IF Throws(1) THEN refresh_tokens
           ELSE RunResult(2, refresh_tokens,
                          DeleteAllRefreshTokens(refresh_tokens, rq.id))
    /\ IF Throws(1) \/ Throws(2)
       THEN /\ resp' = [StoreError(route) EXCEPT
                            !.header = rq.principal, !.principal = rq.principal,
                            !.handled = TRUE, !.target = rq.id]
            /\ UNCHANGED purged
       ELSE /\ resp' = [Response(route, 200, "OK") EXCEPT
                            !.header = rq.principal, !.principal = rq.principal,
                            !.handled = TRUE, !.target = rq.id]
            /\ purged' = purged \cup IssuedTo(rq.id)
    /\ storeFault' = NoFault
    /\ UNCHANGED <<now, enableRateLimiting, rlVars, guardVars, issued, revoked>>

\* POST /change-password resumed after bcrypt.hash
ChangePasswordFinish(i) ==
    /\ inflight[i].op = "changePassword"
    /\ inflight[i].phase = "hash"
    /\ SetPassword("changePassword", i)

\* POST /api/v2/admin/users/:id/reset-password up to the awaits of
\* bcrypt.genSalt and bcrypt.hash; body is <<>> when new_password is missing
AdminResetPassword(c, header, id, body) ==
    LET st == Limit(<<"global">>, c)
        gate == Guarded("resetPassword", header, {"admin"}, now)
    IN /\ LimitVars(st)
       /\ IF ~st.passed
          THEN /\ resp' = TooManyRequests("resetPassword", st)
               /\ UNCHANGED inflight
          ELSE IF gate.status # 0
          THEN /\ resp' = gate
               /\ UNCHANGED inflight
          ELSE IF body = <<>> \/ PasswordLength(body[1]) < 8
          THEN /\ resp' = [Response("resetPassword", 400, NoCode) EXCEPT
                               !.header = header, !.principal = header,
                               !.handled = TRUE, !.target = id]
               /\ UNCHANGED inflight
          ELSE /\ Len(inflight) < MaxInflight
               /\ inflight' = Append(inflight,
                      [op |-> "resetPassword", phase |-> "hash", id |-> id,
                       principal |-> header, newPassword |-> body[1]])
               /\ UNCHANGED resp
       /\ UNCHANGED <<now, enableRateLimiting, guardVars, dbVars, storeFault>>

\* POST /reset-password resumed after bcrypt.hash
AdminResetPasswordFinish(i) ==
    /\ inflight[i].op = "resetPassword"
    /\ SetPassword("resetPassword", i)

\* DELETE /api/v2/admin/users/:id; data-store call 1 deletes the user, call
\* 2 the user's refresh tokens
AdminDeleteUser(c, header, id) ==
    LET st == Limit(<<"global">>, c)
        gate == Guarded("deleteUser", header, {"admin"}, now)
    IN /\ LimitVars(st)
       /\ IF ~st.passed
          THEN /\ resp' = TooManyRequests("deleteUser", st)
               /\ UNCHANGED <<users, refresh_tokens, purged>>
          ELSE IF gate.status # 0
          THEN /\ resp' = gate
               /\ UNCHANGED <<users, refresh_tokens, purged>>
          ELSE IF id = header[1].id
          THEN /\ resp' = [Response("deleteUser", 400, NoCode) EXCEPT
                               !.header = header, !.principal = header,
                               !.handled = TRUE, !.target = id]
               /\ UNCHANGED <<users, refresh_tokens, purged>>
          ELSE /\ users' = RunResult(1, users, DeleteUser(users, id))
               /\ refresh_tokens' =
                      IF Throws(1) THEN refresh_tokens
                      ELSE RunResult(2, refresh_tokens,
                                     DeleteAllRefreshTokens(refresh_tokens, id))
               /\ IF Throws(1) \/ Throws(2)
                  THEN /\ resp' = [StoreError("deleteUser") EXCEPT
                                       !.header = header, !.principal = header,
                                       !.handled = TRUE, !.target = id]
                       /\ UNCHANGED purged
                  ELSE /\ resp' = [Response("deleteUser", 200, "OK") EXCEPT
                                       !.header = header, !.principal = header,
                                       !.handled = TRUE, !.target = id]
                       /\ purged' = purged \cup IssuedTo(id)
       /\ storeFault' = NoFault
       /\ UNCHANGED <<now, enableRateLimiting, guardVars, issued, revoked,
                      inflight>>

\* a cleanup that already removes the record whose window ends now
LiveWindowsEager(store, t) ==
    [k \in {c \in DOMAIN store : ~(t >= store[c].resetTime)} |-> store[k]]

\* the records the periodic cleanup leaves in the Map of one limiter store
LiveWindows(store, t) ==
    [k \in {c \in DOMAIN store : ~(t > store[c].resetTime)} |-> store[k]]

\* the records the periodic cleanup leaves in the Map loginAttempts
LiveAttempts(store, t) ==
    [k \in {e \in DOMAIN store : ~(store[e].lockUntil # NoLock
                                    /\ t > store[e].lockUntil)} |-> store[k]]

\* one run of the setInterval callback that removes expired entries
Cleanup ==
    /\ rateLimitStore' = LiveWindows(rateLimitStore, now)
    /\ rlOwn' = [l \in Limiters |-> LiveWindows(rlOwn[l], now)]
    /\ loginAttempts' = LiveAttempts(loginAttempts, now)
    /\ streak' = [e \in Emails |->
                      IF Has(LiveAttempts(loginAttempts, now), e) THEN streak[e]
                      ELSE 0]
    /\ call' = [NoCall EXCEPT !.fn = "cleanup", !.at = now]
    /\ UNCHANGED <<now, enableRateLimiting, rlSent, rlRejected, rlLog, dbVars,
                   storeFault, inflight, resp>>

\* a direct call recordAttempt(identity, success)
RecordAttempt(email, success) ==
    /\ GuardVars(GuardTrack(Guard, email, success, now))
    /\ UNCHANGED <<now, enableRateLimiting, rlVars, dbVars, storeFault, inflight,
                   resp>>

\* a direct call isLocked(identity)
IsLocked(email) ==
    /\ GuardVars(GuardIsLocked(Guard, email, now))
    /\ UNCHANGED <<now, enableRateLimiting, rlVars, dbVars, storeFault, inflight,
                   resp>>

\* tokens presented to the gates: every combination of signing key, issuer,
\* audience, role claim and expiry, for the admin's user id
GateTokens ==
    {[id |-> 2, email |-> "admin@x.edu", role |-> r, type |-> "none",
      iat |-> 0, exp |-> x, iss |-> i, aud |-> a, key |-> k] :
        r \in Roles, x \in Expiries, i \in {Issuer, "other"},
        a \in {Audience, "other"}, k \in {"secret", "refreshSecret", "forged"}}

\* Authorization headers: none, 'Bearer tk' for every token, and 'Basic tk'
\* for the tokens that would pass as a bearer token
GateHeaders ==
    {<<>>} \cup {<<tk>> : tk \in GateTokens}
           \cup {<<"Basic", tk>> : tk \in {g \in GateTokens :
                                               /\ g.key = "secret"
                                               /\ g.iss = Issuer
                                               /\ g.aud = Audience}}

----------------------------------------------------------------------------
(* Specifications *)

InitCommon ==
    /\ now = 0
    /\ rateLimitStore = EmptyMap
    /\ rlOwn = [l \in Limiters |-> EmptyMap]
    /\ rlSent = [l \in Limiters |-> EmptyMap]
    /\ rlRejected = [c \in Clients |-> <<>>]
    /\ rlLog = <<>>
    /\ loginAttempts = EmptyMap
    /\ streak = [e \in Emails |-> 0]
    /\ call = NoCall
    /\ users = SeedUsers
    /\ refresh_tokens = {}
    /\ issued = {}
    /\ revoked = {}
    /\ purged = {}
    /\ storeFault = NoFault
    /\ inflight = <<>>
    /\ resp = NoResponse

InitLimited == InitCommon /\ enableRateLimiting = TRUE

NextApi == Tick \/ Cleanup \/ \E c \in Clients : ApiRequest(c)

SpecApi == InitLimited /\ [][NextApi]_vars

\* the guard driven directly, by any sequence of calls
NextGuard ==
    \/ Tick
    \/ Cleanup
    \/ \E e \in Identities, s \in BOOLEAN : RecordAttempt(e, s)
    \/ \E e \in Identities : IsLocked(e)

SpecGuard == InitLimited /\ [][NextGuard]_vars

\* the limiters under requests of one client to several routes; the logins
\* are for an address without an account
NextRL ==
    \/ Tick
    \/ Cleanup
    \/ ApiRequest("ip1")
    \/ Login("ip1", "ghost@x.edu", "wrong")

SpecRL == InitLimited /\ [][NextRL]_vars

\* the specifications below run with rate limiting disabled by configuration
InitAuth == InitCommon /\ enableRateLimiting = FALSE

\* the login route, for an account and for an address without one
NextLogin ==
    \/ Tick
    \/ Cleanup
    \/ \E e \in Identities, pw \in {"demo123", "wrong"} : Login("ip1", e, pw)
    \/ \E i \in DOMAIN inflight : LoginFinish(i)

SpecLogin == InitAuth /\ [][NextLogin]_vars

\* the refresh tokens of one account: login, refresh and logout; every login
\* succeeds and no limiter runs, so both Maps stay empty and Cleanup is a no-op
NextTokens ==
    \/ Tick
    \/ Login("ip1", "prof@x.edu", "demo123")
    \/ \E i \in DOMAIN inflight : LoginFinish(i)
    \/ \E tk \in Presentable : Refresh("ip1", <<tk>>)
    \/ Refresh("ip1", <<>>)
    \/ \E h \in Bearers, tk \in RefreshTokens : Logout("ip1", <<h>>, <<tk>>)
    \/ \E h \in Bearers : Logout("ip1", <<h>>, <<>>)
    \/ Logout("ip1", <<>>, <<>>)

SpecTokens == InitAuth /\ [][NextTokens]_vars

\* the access tokens clients hold
AccessTokens == {tk \in issued : tk.type = "none"}

\* the access tokens user id holds
AccessTokensOf(id) == {tk \in AccessTokens : tk.id = id}

\* bodies of POST /change-password by user id: no fields, the current
\* password and a wrong one
ChangeBodies(id) ==
    {<<>>,
     <<[currentPassword |-> users[id].password, newPassword |-> "changed456"]>>,
     <<[currentPassword |-> "wrong", newPassword |-> "changed456"]>>}

\* the operations that delete all refresh tokens of user 1: change-password,
\* the admin's reset-password and logout without a token, among refreshes and
\* logins with the password that is current
NextPassword ==
    \/ Tick
    \/ \E id \in DOMAIN users :
          /\ Cardinality(issued) < MaxIssued
          /\ Login("ip1", users[id].email, users[id].password)
    \/ \E i \in DOMAIN inflight : LoginFinish(i)
    \/ \E tk \in RefreshTokens : Refresh("ip1", <<tk>>)
    \/ \E h \in AccessTokensOf(1), b \in ChangeBodies(1) :
          ChangePassword("ip1", <<h>>, b)
    \/ \E i \in DOMAIN inflight : ChangePasswordCompared(i)
    \/ \E i \in DOMAIN inflight : ChangePasswordFinish(i)
    \/ \E h \in AccessTokens, b \in {<<"changed456">>, <<"wrong">>, <<>>} :
          AdminResetPassword("ip1", <<h>>, 1, b)
    \/ \E i \in DOMAIN inflight : AdminResetPasswordFinish(i)
    \/ \E h \in AccessTokensOf(1) : Logout("ip1", <<h>>, <<>>)

SpecPassword == InitAuth /\ [][NextPassword]_vars

\* the global limiter and the cleanup, where the timer of setInterval keeps
\* firing: a cleanup run that would change something is eventually taken
SpecSweep == SpecApi /\ WF_vars(Cleanup)

\* the sessions of two users, and logouts that name a refresh token
NextLogout ==
    \/ Tick
    \/ \E id \in DOMAIN users :
          /\ Cardinality(RefreshTokens) < MaxSessions
          /\ Login("ip1", users[id].email, users[id].password)
    \/ \E i \in DOMAIN inflight : LoginFinish(i)
    \/ \E h \in AccessTokens, tk \in RefreshTokens :
          Logout("ip1", <<h>>, <<tk>>)

SpecLogout == InitAuth /\ [][NextLogout]_vars

\* the limiters with the configuration flag set either way
InitEither == InitCommon /\ enableRateLimiting \in BOOLEAN

NextFlag ==
    \/ Tick
    \/ Cleanup
    \/ ApiRequest("ip1")
    \/ Login("ip1", "ghost@x.edu", "wrong")

SpecFlag == InitEither /\ [][NextFlag]_vars

\* the two login routes of one client with rate limiting enabled
NextOrder ==
    \/ Tick
    \/ \E e \in Identities, pw \in {"demo123", "wrong"} : Login("ip1", e, pw)
    \/ \E i \in DOMAIN inflight : LoginFinish(i)
    \/ \E e \in Identities, pw \in {"demo123", "wrong"} :
          LegacyLogin("ip1", e, pw)

SpecOrder == InitLimited /\ [][NextOrder]_vars

\* the access tokens of two users presented to a route behind authenticate
\* while user 1 logs out everywhere, changes the password and is deleted by
\* the admin
NextStateless ==
    \/ Tick
    \/ \E id \in DOMAIN users :
          /\ Cardinality(issued) < MaxIssued
          /\ Login("ip1", users[id].email, users[id].password)
    \/ \E i \in DOMAIN inflight : LoginFinish(i)
    \/ \E h \in AccessTokens : GetProfile("ip1", <<h>>)
    \/ \E h \in AccessTokensOf(1) : Logout("ip1", <<h>>, <<>>)
    \/ \E h \in AccessTokensOf(1) :
          ChangePassword("ip1", <<h>>,
              <<[currentPassword |-> "demo123",
                 newPassword |-> "changed456"]>>)
    \/ \E i \in DOMAIN inflight : ChangePasswordCompared(i)
    \/ \E i \in DOMAIN inflight : ChangePasswordFinish(i)
    \/ \E h \in AccessTokensOf(2) : AdminDeleteUser("ip1", <<h>>, 1)

SpecStateless == InitAuth /\ [][NextStateless]_vars

\* the pieces of an address, and the email strings submitted to the login
\* route: the address of an account, that address behind a blank, inside angle
\* brackets, and with another letter case, which no user has (the comparison
\* of email = ? is by bytes), and a string that validate rejects
Address(name) == <<name, "@", "x", ".", "edu">>

RawEmails ==
    {Address("prof"), <<Blank>> \o Address("prof"),
     <<"<">> \o Address("prof") \o <<">">>,
     Address("Prof"), <<"<", Blank>> \o Address("prof")}

\* the login route under the strings as they are submitted
NextIdentity ==
    \/ Tick
    \/ \E raw \in RawEmails : LoginRequest("ip1", raw, "wrong")
    \/ LoginRequest("ip1", Address("prof"), "demo123")
    \/ \E i \in DOMAIN inflight : LoginFinish(i)

SpecIdentity == InitAuth /\ [][NextIdentity]_vars

\* login, refresh, logout and change-password of one user while calls of the
\* data store may throw
NextFaults ==
    \/ Tick
    \/ \E k \in 1..MaxStoreCalls, a \in BOOLEAN : StoreFault(k, a)
    \/ /\ issued = {}
       /\ Login("ip1", "prof@x.edu", "demo123")
    \/ \E i \in DOMAIN inflight : LoginFinish(i)
    \/ \E tk \in RefreshTokens : Refresh("ip1", <<tk>>)
    \/ \E h \in AccessTokens : Logout("ip1", <<h>>, <<>>)
    \/ \E h \in AccessTokens, tk \in RefreshTokens : Logout("ip1", <<h>>, <<tk>>)
    \/ \E h \in AccessTokens :
          ChangePassword("ip1", <<h>>,
              <<[currentPassword |-> "demo123", newPassword |-> "demo123"]>>)
    \/ \E i \in DOMAIN inflight : ChangePasswordCompared(i)
    \/ \E i \in DOMAIN inflight : ChangePasswordFinish(i)

SpecFaults == InitAuth /\ [][NextFaults]_vars

\* the gates authenticate, optionalAuth and authorize('admin') under every
\* header, at every time
NextGate ==
    \/ Tick
    \/ \E h \in GateHeaders : GetProfile("ip1", h)
    \/ \E h \in GateHeaders : OptionalRequest(h)
    \/ \E h \in GateHeaders, id \in UserIds : AdminDeleteUser("ip1", h, id)

SpecGate == InitAuth /\ [][NextGate]_vars

----------------------------------------------------------------------------
(* Rate limiter: properties *)

\* C1: starting from no record, each of the first maxRequests requests a
\* client sends to a limiter within one window is allowed, and request number
\* maxRequests + 1 of that window, at any time up to and including resetTime,
\* is rejected with 429 and retryAfterSeconds > 0.
C1_FirstAllowedNextRejected ==
    \A i \in DOMAIN rlLog :
        LET e == rlLog[i] IN
        /\ e.n <= LimMax(e.lim) => e.allowed
        /\ e.n = LimMax(e.lim) + 1 =>
              /\ ~e.allowed
              /\ resp.status = 429
              /\ e.retryAfter # <<>>
              /\ e.retryAfter[1] > 0

\* C2: for every limiter policy applied to a client, the client's count never
\* exceeds that policy's maxRequests while the window is open, and a request
\* observed at or after resetTime is not counted in the old window.
C2_CountWithinPolicyMax ==
    /\ \A l \in Limiters : \A c \in DOMAIN rlSent[l] :
          (Has(rateLimitStore, c) /\ now < rateLimitStore[c].resetTime) =>
              rateLimitStore[c].count <= LimMax(l)
    /\ \A i \in DOMAIN rlLog :
          LET e == rlLog[i] IN
          (e.before # <<>> /\ e.at >= e.before[1].resetTime) =>
              e.after.resetTime # e.before[1].resetTime

\* C3: a client that was rejected in a window is allowed by the first limiter
\* call that sees it at a time now > resetTime, and that call installs the
\* fresh record {count: 1, resetTime: now + windowMs}, whether or not the
\* cleanup has removed the old record in between.
C3_AllowedAfterReset ==
    \A i \in DOMAIN rlLog :
        LET e == rlLog[i] IN
        (/\ e.rejectedIn # <<>>
         /\ e.before # <<>> => e.before[1].resetTime = e.rejectedIn[1]
         /\ e.at > e.rejectedIn[1]) =>
            /\ e.allowed
            /\ e.after = [count |-> 1, resetTime |-> e.at + LimWin(e.lim)]
            /\ resp.status # 429

\* a limiter call for a client rejected in a window that has since elapsed
C3_Witness ==
    \E i \in DOMAIN rlLog :
        /\ rlLog[i].before # <<>>
        /\ rlLog[i].rejectedIn = <<rlLog[i].before[1].resetTime>>
        /\ rlLog[i].at > rlLog[i].before[1].resetTime
        /\ rlLog[i].allowed

\* C4: the global limiter and the auth limiter keep independent records: each
\* call of a limiter decides, and leaves the count and resetTime, as it would
\* on a store that only this limiter's requests have touched; one login takes
\* one unit of the auth limiter's quota in a window of authWindowMs.
C4_IndependentLimiters ==
    \A i \in DOMAIN rlLog :
        /\ rlLog[i].allowed = rlLog[i].ownAllowed
        /\ rlLog[i].after = rlLog[i].ownAfter

----------------------------------------------------------------------------
(* Login attempt guard: properties *)

LockedAt(record, t) == record.lockUntil # NoLock /\ t < record.lockUntil

\* C5: starting from no record, an identity is not locked after fewer than
\* maxLoginAttempts consecutive failed recordAttempt calls, it is locked with
\* lockUntil = now + lockoutDuration by the call that makes them
\* maxLoginAttempts, and recordAttempt(identity, true) removes the record in
\* any state, also while the identity is locked.
C5_LockAfterThreshold ==
    /\ \A e \in Emails :
          streak[e] \in 1..(maxLoginAttempts - 1) =>
              /\ Has(loginAttempts, e)
              /\ loginAttempts[e].attempts = streak[e]
              /\ loginAttempts[e].lockUntil = NoLock
              /\ ~IsAccountLocked(loginAttempts, e, now).res.locked
    /\ (call.fn = "trackLoginAttempt" /\ ~call.success) =>
          /\ call.streak < maxLoginAttempts => ~call.res.locked
          /\ call.streak = maxLoginAttempts =>
                /\ call.res.locked
                /\ Has(loginAttempts, call.email)
                /\ loginAttempts[call.email].lockUntil = call.at + lockoutDuration
                /\ now = call.at =>
                      IsAccountLocked(loginAttempts, call.email, now).res.locked
    /\ (call.fn = "trackLoginAttempt" /\ call.success) =>
          /\ ~call.res.locked
          /\ ~Has(loginAttempts, call.email)
          /\ ~IsAccountLocked(loginAttempts, call.email, now).res.locked

\* a successful attempt recorded for an identity that was locked at the call
C5_Witness ==
    /\ call.fn = "trackLoginAttempt"
    /\ call.success
    /\ call.before # <<>>
    /\ LockedAt(call.before[1], call.at)

\* C6: for a locked identity, isLocked at a time now >= lockUntil returns
\* unlocked and removes the record, and isLocked at a time now < lockUntil
\* returns locked with remainingSeconds > 0.
C6_LockClearsAtExpiry ==
    (/\ call.fn = "isAccountLocked"
     /\ call.before # <<>>
     /\ call.before[1].lockUntil # NoLock) =>
        IF call.at >= call.before[1].lockUntil
        THEN /\ ~call.res.locked
             /\ ~Has(loginAttempts, call.email)
        ELSE /\ call.res.locked
             /\ call.res.remainingSeconds # <<>>
             /\ call.res.remainingSeconds[1] > 0
             /\ Has(loginAttempts, call.email)
             /\ loginAttempts[call.email] = call.before[1]

\* isLocked called exactly at lockUntil
C6_Witness ==
    /\ call.fn = "isAccountLocked"
    /\ call.before # <<>>
    /\ call.before[1].lockUntil # NoLock
    /\ call.at = call.before[1].lockUntil

\* C19: between operations every record has 0 <= attempts < maxLoginAttempts,
\* and a lockUntil appears in a record only by the trackLoginAttempt call in
\* which the failures reached maxLoginAttempts, which sets it to now +
\* lockoutDuration and resets attempts to 0.
C19_RecordInvariant ==
    [][\A e \in DOMAIN loginAttempts' :
          LET record == loginAttempts'[e] IN
          /\ record.attempts \in 0..(maxLoginAttempts - 1)
          /\ (/\ record.lockUntil # NoLock
              /\ \/ ~Has(loginAttempts, e)
                 \/ loginAttempts[e].lockUntil # record.lockUntil) =>
                 /\ call'.fn = "trackLoginAttempt"
                 /\ call'.email = e
                 /\ ~call'.success
                 /\ call'.res.locked
                 /\ (IF call'.before = <<>> THEN 0
                     ELSE call'.before[1].attempts) + 1 = maxLoginAttempts
                 /\ record.lockUntil = now + lockoutDuration
                 /\ record.attempts = 0]_vars

\* a record that carries an expired lockUntil and the failures of the next
\* cycle
C19_Witness ==
    \E e \in DOMAIN loginAttempts :
        /\ loginAttempts[e].lockUntil # NoLock
        /\ now >= loginAttempts[e].lockUntil
        /\ loginAttempts[e].attempts = maxLoginAttempts - 1

\* the Map's key for a submitted string that validate accepts
Key(raw) == Join(SanitizeString(raw))

\* the record that decides the lock of a submitted string, if it has one
RecordOf(store, raw) ==
    IF IsEmail(SanitizeString(raw)) /\ Has(store, Key(raw))
    THEN <<store[Key(raw)]>>
    ELSE <<>>

\* a step that answers a login of the submitted string `raw' with 401: at once
\* when no user has the email, after bcrypt.compare when the password is wrong
FailedLogin(raw) ==
    /\ resp'.status = 401
    /\ now' = now
    /\ \/ \E pw \in Passwords :
             inflight' = inflight /\ LoginRequest("ip1", raw, pw)
       \/ \E i \in DOMAIN inflight :
             /\ inflight[i].op = "login"
             /\ inflight[i].submitted = raw
             /\ LoginFinish(i)

\* the failed login is counted for the key of `raw' by trackLoginAttempt, the
\* same way whether or not a user has the email
CountedAlike(raw) ==
    LET key == Key(raw)
        before == IF call'.before = <<>> THEN <<>>
                  ELSE Put(<<>>, key, call'.before[1])
    IN /\ call'.fn = "trackLoginAttempt"
       /\ ~call'.success
       /\ call'.email = key
       /\ Has(loginAttempts', key)
       /\ loginAttempts'[key] =
              TrackLoginAttempt(before, key, FALSE, now).store[key]
       /\ call'.res = TrackLoginAttempt(before, key, FALSE, now).res

\* C20 as stated: a failed login is counted for the submitted email string
\* whether or not a user has that email, so that maxLoginAttempts failures
\* lock an email without an account as they lock an account, and it never
\* changes the record of a different submitted string, one that differs only
\* in letter case included.
C20_CountsBySubmittedString ==
    [][\A raw \in RawEmails :
          FailedLogin(raw) =>
              /\ CountedAlike(raw)
              /\ \A other \in RawEmails \ {raw} :
                    RecordOf(loginAttempts', other) =
                        RecordOf(loginAttempts, other)]_vars

\* C20, amended: a failed login is counted for the submitted email string as
\* validate leaves it (trimmed, "<" and ">" removed), whether or not a user
\* has that email, and it never changes the record of a submitted string that
\* validate leaves different, one that differs only in letter case included.
C20_CountsBySanitizedString ==
    [][\A raw \in RawEmails :
          FailedLogin(raw) =>
              /\ CountedAlike(raw)
              /\ \A other \in RawEmails :
                    SanitizeString(other) # SanitizeString(raw) =>
                        RecordOf(loginAttempts', other) =
                            RecordOf(loginAttempts, other)]_vars

\* failed logins have locked the spelling of the address that no user has,
\* while the account's spelling has a record of its own that is not locked
C20_Witness ==
    /\ FindUserByEmail(Key(Address("Prof"))) = <<>>
    /\ RecordOf(loginAttempts, Address("Prof")) # <<>>
    /\ RecordOf(loginAttempts, Address("Prof"))[1].lockUntil # NoLock
    /\ RecordOf(loginAttempts, Address("prof")) # <<>>
    /\ RecordOf(loginAttempts, Address("prof"))[1].lockUntil = NoLock
    /\ RecordOf(loginAttempts, Address("prof"))[1].attempts > 0

----------------------------------------------------------------------------
(* Login route: properties *)

\* C7: the response to the failed login that reaches maxLoginAttempts carries
\* ACCOUNT_LOCKED with retryAfter = lockoutDuration / 1000 seconds, not
\* INVALID_CREDENTIALS.
C7_ThresholdAnswersLocked ==
    (/\ resp.route = "login"
     /\ call.fn = "trackLoginAttempt"
     /\ ~call.success
     /\ call.email = resp.email
     /\ call.streak = maxLoginAttempts) =>
        /\ resp.code = "ACCOUNT_LOCKED"
        /\ resp.retryAfter = <<Ceil(lockoutDuration, MsPerSec)>>

\* C8: a login for an identity locked at that time is answered 423
\* ACCOUNT_LOCKED with retryAfter, looks up no user, verifies no password and
\* leaves the identity's record as it was, whatever password was submitted.
C8_LockedLoginShortCircuits ==
    [][\A e \in Emails, pw \in Passwords :
          (/\ Login("ip1", e, pw)
           /\ Has(loginAttempts, e)
           /\ LockedAt(loginAttempts[e], now)) =>
              /\ resp'.route = "login"
              /\ resp'.email = e
              /\ resp'.status = 423
              /\ resp'.code = "ACCOUNT_LOCKED"
              /\ resp'.retryAfter # <<>>
              /\ ~resp'.lookup
              /\ inflight' = inflight
              /\ loginAttempts' = loginAttempts]_vars

\* a login answered 423 for an identity that is still locked
C8_Witness ==
    /\ resp.route = "login"
    /\ resp.status = 423
    /\ Has(loginAttempts, resp.email)
    /\ LockedAt(loginAttempts[resp.email], now)

----------------------------------------------------------------------------
(* Refresh and logout: properties *)

Stored(tk, t) ==
    \E r \in refresh_tokens :
        r.token = tk /\ r.user_id = tk.id /\ r.expires_at > Sec(t)

\* C9: the refresh endpoint issues an access token only if the presented
\* token passes the signature and expiry check and a row exists for exactly
\* that token and that token's user id with expires_at in the future.
C9_RefreshNeedsStoredToken ==
    [][/\ \A tk \in Presentable :
            (Refresh("ip1", <<tk>>) /\ resp'.accessToken # <<>>) =>
                /\ VerifyRefreshToken(tk, now) # <<>>
                /\ Stored(tk, now)
       /\ Refresh("ip1", <<>>) => resp'.accessToken = <<>>]_vars

\* a refresh answered with a new access token
C9_Witness ==
    /\ resp.route = "refresh"
    /\ resp.status = 200
    /\ resp.accessToken # <<>>

\* C10: once a logout that names a refresh token of its user, or a logout of
\* all devices of that user, has completed, every later refresh with that
\* token that verifyRefreshToken still accepts fails with 401 TOKEN_NOT_FOUND.
C10_RevokedStaysRevoked ==
    [][\A tk \in revoked :
          (Refresh("ip1", <<tk>>) /\ VerifyRefreshToken(tk, now) # <<>>) =>
              /\ resp'.status = 401
              /\ resp'.code = "TOKEN_NOT_FOUND"]_vars

\* a step in which a request to `route' is answered at time now, where every
\* request is answered in the step that takes it
Answers(route) == now' = now /\ resp'.route = route

\* a header that carries an unexpired token signed with the access-token
\* secret and bearing the configured issuer and audience
ValidBearer(header, t) ==
    /\ Len(header) = 1
    /\ header[1].key = "secret"
    /\ Sec(t) < header[1].exp
    /\ header[1].iss = Issuer
    /\ header[1].aud = Audience

\* no refresh token is stored for user id
NoRecordOf(id, rows) == \A r \in rows : r.user_id # id

\* C11: when a change-password, an admin reset-password or a logout without
\* a named token completes successfully for a user, no refresh-token record
\* of that user id remains, and every refresh token issued to that user
\* before the operation is rejected by the refresh attempts that follow.
C11_BulkRevocation ==
    [][/\ (/\ resp'.status = 200
           /\ \/ resp'.route \in {"changePassword", "resetPassword"}
              \/ resp'.route = "logout" /\ resp'.token = <<>>) =>
              NoRecordOf(resp'.target, refresh_tokens')
       /\ \A tk \in purged :
              Refresh("ip1", <<tk>>) =>
                  resp'.status = 401 /\ resp'.accessToken = <<>>]_vars

\* C12: two refresh requests with the same still-valid, still-persisted
\* refresh token both succeed, in either order, and each returns an access
\* token that authenticate accepts.
C12_RepeatedRefreshSucceeds ==
    [][\A tk \in RefreshTokens :
          (/\ Refresh("ip1", <<tk>>)
           /\ VerifyRefreshToken(tk, now) # <<>>
           /\ Stored(tk, now)) =>
              /\ resp'.status = 200
              /\ resp'.accessToken # <<>>
              /\ ValidBearer(resp'.accessToken, now)
              /\ Authenticate("profile", resp'.accessToken, now).status = 0
              /\ refresh_tokens' = refresh_tokens]_vars

\* the second of two successive refreshes with one token, both successful
C12_Witness ==
    /\ resp.route = "refresh"
    /\ resp.status = 200
    /\ resp.repeat
    /\ resp.accessToken # <<>>

----------------------------------------------------------------------------
(* Gates: properties *)

\* the codes the 401 responses of the authentication core may carry
Codes401 ==
    {"MISSING_TOKEN", "INVALID_TOKEN", "TOKEN_EXPIRED", "ACCOUNT_LOCKED",
     "INVALID_CREDENTIALS", "TOKEN_NOT_FOUND", "USER_NOT_FOUND"}

\* C17: every 401 response of authenticate, authorize and the login,
\* refresh, logout and change-password handlers carries a code field, one of
\* MISSING_TOKEN, INVALID_TOKEN, TOKEN_EXPIRED, ACCOUNT_LOCKED,
\* INVALID_CREDENTIALS, TOKEN_NOT_FOUND, USER_NOT_FOUND.
C17_CodesOf401 == resp.status = 401 => resp.code \in Codes401

\* C18: if a call of the data store throws while a login, refresh, logout or
\* change-password request is handled, the response is a 500 and never a
\* 401, 403, 423 or 429, and no token is returned to the client.
C18_StoreFailureIs500 ==
    (/\ resp.threw
     /\ resp.route \in {"login", "refresh", "logout", "changePassword"}) =>
        /\ resp.status = 500
        /\ resp.accessToken = <<>>
        /\ resp.refreshToken = <<>>

\* a login whose insert of the refresh token threw after the password was
\* verified
C18_Witness ==
    /\ resp.threw
    /\ resp.route = "login"
    /\ resp.lookup

\* C13: authenticate accepts a bearer token and attaches its claims as the
\* Principal if and only if the token is unexpired, signed with the access
\* secret and carries the configured issuer and audience; a token with an
\* altered claim, one signed with the refresh secret and one with another
\* issuer or audience are rejected with 401.
C13_AcceptsExactlyValidTokens ==
    [][Answers("profile") =>
          LET h == resp'.header IN
          /\ resp'.handled <=> ValidBearer(h, now)
          /\ resp'.handled => resp'.principal = h
          /\ ~resp'.handled => resp'.status = 401 /\ resp'.principal = <<>>
          /\ (/\ Len(h) = 1
              /\ \/ h[1].key \in {"forged", "refreshSecret"}
                 \/ h[1].iss # Issuer
                 \/ h[1].aud # Audience) => resp'.status = 401]_vars

\* a request that authenticate let through to the handler
C13_Witness ==
    /\ resp.route = "profile"
    /\ resp.handled
    /\ resp.principal = resp.header
    /\ resp.header \in GateHeaders

\* C14: authenticate ends in exactly one of four outcomes: MISSING_TOKEN for
\* an absent header or one that does not start with 'Bearer ', TOKEN_EXPIRED
\* for a correctly signed token past its expiry (never INVALID_TOKEN),
\* INVALID_TOKEN for a bad signature or bad claims, or Authenticated with the
\* Principal attached.
C14_FourOutcomes ==
    [][Answers("profile") =>
          LET h == resp'.header
              outcome == IF resp'.handled THEN "Authenticated" ELSE resp'.code
          IN /\ outcome \in {"MISSING_TOKEN", "TOKEN_EXPIRED",
                              "INVALID_TOKEN", "Authenticated"}
             /\ outcome # "Authenticated" => resp'.status = 401
             /\ outcome = "MISSING_TOKEN" <=> Len(h) # 1
             /\ outcome = "TOKEN_EXPIRED" <=>
                    /\ Len(h) = 1
                    /\ h[1].key = "secret"
                    /\ Sec(now) >= h[1].exp
             /\ outcome = "Authenticated" <=> ValidBearer(h, now)]_vars

\* a correctly signed token presented after its expiry
C14_Witness ==
    /\ resp.route = "profile"
    /\ resp.code = "TOKEN_EXPIRED"
    /\ Len(resp.header) = 1
    /\ resp.header[1].key = "secret"
    /\ Sec(now) >= resp.header[1].exp

\* C15: the handler behind authenticate and authorize('admin') runs only for
\* a valid access token whose role claim is admin; a valid token whose role
\* is absent or another one is answered 403 FORBIDDEN, and the handler does
\* not run: no user and no refresh token is deleted.
C15_HandlerOnlyForAllowedRole ==
    [][Answers("deleteUser") =>
          LET h == resp'.header IN
          /\ resp'.handled => ValidBearer(h, now) /\ h[1].role \in {"admin"}
          /\ ~resp'.handled => users' = users /\ refresh_tokens' = refresh_tokens
          /\ (ValidBearer(h, now) /\ h[1].role \notin {"admin"}) =>
                 /\ resp'.status = 403
                 /\ resp'.code = "FORBIDDEN"
                 /\ ~resp'.handled]_vars

\* a valid token without the admin role, answered 403
C15_Witness ==
    /\ resp.route = "deleteUser"
    /\ resp.status = 403
    /\ Len(resp.header) = 1
    /\ resp.header[1].role \in {"professor", "none"}
    /\ 1 \in DOMAIN users

\* C16: optionalAuth never rejects: for every header it calls next() exactly
\* once, and it attaches a Principal only when the header carries a valid
\* token.
C16_OptionalNeverRejects ==
    [][Answers("optional") =>
          /\ resp'.status = 0
          /\ resp'.nexts = 1
          /\ resp'.principal # <<>> => ValidBearer(resp'.header, now)]_vars

\* C21: the outcome of authenticate for an access token at a time is decided
\* by the token's signature, claims and expiry alone, whatever the refresh
\* tokens, the users, the login attempts and the rate limit records are: an
\* unexpired access token is accepted after logout, after a password change
\* and after the deletion of its user, and is rejected only once expired.
C21_AuthenticateIgnoresStores ==
    [][\A tk \in AccessTokens :
          GetProfile("ip1", <<tk>>) =>
              IF ValidBearer(<<tk>>, now)
              THEN resp'.principal = <<tk>> /\ resp'.handled
              ELSE /\ resp'.status = 401
                   /\ resp'.code = "TOKEN_EXPIRED"
                   /\ resp'.principal = <<>>]_vars

\* the profile route has run for the token of a user that was deleted after
\* the user's refresh tokens were purged
C21_Witness ==
    /\ resp.route = "profile"
    /\ resp.handled
    /\ resp.status = 404
    /\ resp.principal # <<>>
    /\ resp.principal[1].id \notin DOMAIN users
    /\ purged # {}

\* the request of this step was rejected by one of its limiters
Limited == rlLog' # <<>> /\ ~rlLog'[Len(rlLog')].allowed

\* the request of this step consulted isAccountLocked for the email, which
\* answered that it is not locked
ConsultedIsLocked(email) ==
    /\ call'.fn = "isAccountLocked"
    /\ call'.email = email
    /\ call'.at = now
    /\ ~call'.res.locked

\* C22: a login passes the rate limiters, then isAccountLocked, then the
\* verification of the credentials: a login rejected with 429 changes no
\* record of the login attempt guard and verifies no password, and no login
\* endpoint verifies the credentials of an identity without having consulted
\* isAccountLocked for it.
C22_LimiterGuardCredentials ==
    [][\A e \in Identities, pw \in {"demo123", "wrong"} :
          /\ Login("ip1", e, pw) =>
                IF Limited
                THEN /\ resp'.status = 429
                     /\ ~resp'.lookup
                     /\ loginAttempts' = loginAttempts
                     /\ call' = call
                     /\ inflight' = inflight
                ELSE /\ Len(rlLog') = 2
                     /\ inflight' # inflight => ConsultedIsLocked(e)
          /\ (/\ LegacyLogin("ip1", e, pw)
              /\ ~Limited
              /\ FindUserByEmail(e) # <<>>) => ConsultedIsLocked(e)]_vars

\* the count a limiter call leaves when it counts the request: 1 in a new
\* window, one more than before in an open one
Counted(e) ==
    IF e.before # <<>> /\ e.at <= e.before[1].resetTime
    THEN e.before[1].count + 1
    ELSE 1

\* C23: a request passes a limiter uncounted only when enableRateLimiting is
\* off, and then no limiter runs at all; when it is on, every request goes
\* through its limiters, and each limiter either counts it in the client's
\* record and lets it pass or rejects it with 429 and ends the request.
C23_CountedUnlessDisabled ==
    /\ ~enableRateLimiting =>
          /\ rlLog = <<>>
          /\ rateLimitStore = EmptyMap
          /\ resp.status # 429
    /\ (enableRateLimiting /\ resp.route # "none") =>
          /\ rlLog # <<>>
          /\ \A i \in DOMAIN rlLog :
                LET e == rlLog[i] IN
                IF e.allowed
                THEN /\ e.after.count = Counted(e)
                     /\ i = Len(rlLog) => resp.status # 429
                ELSE /\ i = Len(rlLog)
                     /\ resp.status = 429
                     /\ resp.code = "RATE_LIMIT_EXCEEDED"
                     /\ e.before = <<e.after>>

\* with the flag on, a login counted by the global limiter and rejected by
\* the auth limiter
C23_Witness ==
    /\ enableRateLimiting
    /\ Len(rlLog) = 2
    /\ rlLog[1].allowed
    /\ rlLog[1].after.count > 1
    /\ ~rlLog[2].allowed

\* a request of client ip1 in the specification of the limiters
RequestOfIp1 == ApiRequest("ip1") \/ Login("ip1", "ghost@x.edu", "wrong")

\* C24: a request rejected by a rate limiter is answered 429 with code
\* RATE_LIMIT_EXCEEDED and a Retry-After of ceil((resetTime - now) / 1000)
\* seconds, and it leaves the client's record as it was: count is not
\* incremented and resetTime is not moved.
C24_RejectedLeavesRecord ==
    [][(RequestOfIp1 /\ Limited) =>
          /\ resp'.status = 429
          /\ resp'.code = "RATE_LIMIT_EXCEEDED"
          /\ resp'.retryAfter =
                <<Ceil(rateLimitStore["ip1"].resetTime - now, MsPerSec)>>
          /\ rateLimitStore' = rateLimitStore]_vars

\* the window of client c's record has passed
Expired(c) == Has(rateLimitStore, c) /\ now > rateLimitStore[c].resetTime

\* C25: when the cleanup keeps running, a record whose resetTime has passed
\* is eventually removed, unless a request of its client has replaced it by
\* the record of a new window before; and a cleanup run removes only records
\* with now > resetTime and leaves the records of open windows as they are.
C25_ExpiredEventuallyRemoved ==
    /\ \A c \in Clients : Expired(c) ~> ~Expired(c)
    /\ [][Cleanup =>
            \A c \in DOMAIN rateLimitStore :
                IF now > rateLimitStore[c].resetTime
                THEN ~Has(rateLimitStore', c)
                ELSE /\ Has(rateLimitStore', c)
                     /\ rateLimitStore'[c] = rateLimitStore[c]]_vars

\* a cleanup run has removed the expired record of ip1 and kept the record of
\* ip2, whose window ends now
C25_Witness ==
    /\ call.fn = "cleanup"
    /\ call.at = now
    /\ Has(rlSent["global"], "ip1")
    /\ ~Has(rateLimitStore, "ip1")
    /\ Has(rateLimitStore, "ip2")
    /\ rateLimitStore["ip2"].resetTime = now

\* the record of email before a call, a fresh one when there is none
RecordBefore(email) ==
    IF Has(loginAttempts, email) THEN loginAttempts[email]
    ELSE [attempts |-> 0, lockUntil |-> NoLock]

\* recordAttempt(email, false) counts the failure: one more attempt, or at
\* the threshold the lock and attempts = 0
CountsFailure(email) ==
    LET record == RecordBefore(email) IN
    /\ Has(loginAttempts', email)
    /\ IF record.attempts + 1 >= maxLoginAttempts
       THEN /\ loginAttempts'[email] =
                  [attempts |-> 0, lockUntil |-> now + lockoutDuration]
            /\ call'.res.locked
       ELSE /\ loginAttempts'[email] =
                  [record EXCEPT !.attempts = record.attempts + 1]
            /\ ~call'.res.locked
            /\ call'.res.attemptsRemaining =
                  <<maxLoginAttempts - (record.attempts + 1)>>

\* C26 as stated: recordAttempt(identity, false) does not consult lockUntil;
\* called for an identity that is locked at that time it increments attempts
\* and applies the threshold rule as for an identity that is not locked.
C26_RecordAttemptIgnoresLock ==
    [][\A e \in Identities : RecordAttempt(e, FALSE) => CountsFailure(e)]_vars

\* C26, amended: recordAttempt(identity, false) consults lockUntil; called
\* for an identity that is locked at that time it leaves the record as it is
\* and returns locked with the seconds that remain, and called for any other
\* identity it increments attempts and applies the threshold rule.
C26_RecordAttemptRefusedWhileLocked ==
    [][\A e \in Identities :
          RecordAttempt(e, FALSE) =>
              IF LockedAt(RecordBefore(e), now)
              THEN /\ loginAttempts' = loginAttempts
                   /\ call'.res.locked
                   /\ call'.res.remainingSeconds =
                         <<Ceil(loginAttempts[e].lockUntil - now, MsPerSec)>>
              ELSE CountsFailure(e)]_vars

\* a failed attempt recorded for an identity that was locked at the call
C26_Witness ==
    /\ call.fn = "trackLoginAttempt"
    /\ ~call.success
    /\ call.before # <<>>
    /\ LockedAt(call.before[1], call.at)
    /\ call.res.locked
    /\ Has(loginAttempts, call.email)
    /\ loginAttempts[call.email] = call.before[1]

\* C27: a successful refresh leaves the table refresh_tokens as it is and
\* returns an access token and no refresh token, so that the same refresh
\* token is exchanged again with success as long as its record is stored and
\* not expired.
C27_RefreshDoesNotRotate ==
    [][\A tk \in RefreshTokens :
          (Refresh("ip1", <<tk>>) /\ resp'.status = 200) =>
              /\ refresh_tokens' = refresh_tokens
              /\ resp'.refreshToken = <<>>
              /\ resp'.accessToken # <<>>
              /\ \A new \in issued' \ issued : new.type # "refresh"
              /\ Stored(tk, now)'
              /\ RefreshResponse(<<tk>>, refresh_tokens', now).status = 200]_vars

\* one login and two successive successful refreshes with its refresh token,
\* the later one in another second than the login; the token's record is
\* still the only one
C27_Witness ==
    /\ resp.route = "refresh"
    /\ resp.status = 200
    /\ resp.repeat
    /\ Cardinality(refresh_tokens) = 1
    /\ Cardinality(RefreshTokens) = 1
    /\ Cardinality(AccessTokens) = 2
    /\ Stored(resp.token[1], now)

\* the refresh token is exchanged with success at time t on the table rows
Usable(tk, rows, t) == RefreshResponse(<<tk>>, rows, t).status = 200

\* C28: a logout that names a refresh token deletes only rows that match both
\* the authenticated user's id and that token: the user's other refresh
\* tokens stay usable for refresh, no row of another user is deleted, and
\* naming a token of another user deletes nothing.
C28_LogoutDeletesOnlyNamed ==
    [][\A h \in AccessTokens, tk \in RefreshTokens :
          Logout("ip1", <<h>>, <<tk>>) =>
              /\ refresh_tokens' \subseteq refresh_tokens
              /\ \A r \in refresh_tokens \ refresh_tokens' :
                    r.user_id = h.id /\ r.token = tk
              /\ tk.id # h.id => refresh_tokens' = refresh_tokens
              /\ \A other \in RefreshTokens \ {tk} :
                    Usable(other, refresh_tokens, now) =>
                        Usable(other, refresh_tokens', now)]_vars

\* a logout has deleted the row of the token it named, while another token of
\* the same user and a token of the other user are still usable
C28_Witness ==
    /\ resp.route = "logout"
    /\ resp.status = 200
    /\ resp.token # <<>>
    /\ resp.token[1].id = resp.target
    /\ ~Stored(resp.token[1], now)
    /\ \E other \in RefreshTokens :
          other.id = resp.target /\ Usable(other, refresh_tokens, now)
    /\ \E other \in RefreshTokens :
          other.id # resp.target /\ Usable(other, refresh_tokens, now)

\* C29: a run of the background cleanup changes no later result: in every
\* state that calls of the limiters and of the login attempt guard reach,
\* with cleanup runs anywhere among them or with none, the next call of a
\* limiter, of isAccountLocked and of trackLoginAttempt returns after a
\* cleanup run what it returns without that run.
C29_CleanupChangesNoResult ==
    /\ \A l \in Limiters, c \in Clients :
          LET with == RateLimit(LimMax(l), LimWin(l),
                                LiveWindows(rateLimitStore, now), c, now)
              without == RateLimit(LimMax(l), LimWin(l), rateLimitStore, c, now)
          IN /\ with.allowed = without.allowed
             /\ with.retryAfter = without.retryAfter
    /\ \A e \in Identities :
          IsAccountLocked(LiveAttempts(loginAttempts, now), e, now).res =
              IsAccountLocked(loginAttempts, e, now).res
    /\ \A e \in Identities, success \in BOOLEAN :
          TrackLoginAttempt(LiveAttempts(loginAttempts, now), e, success,
                            now).res =
              TrackLoginAttempt(loginAttempts, e, success, now).res

----------------------------------------------------------------------------
(* Concurrent logins of one identity *)

\* up to MaxConcurrent logins of one account suspended at bcrypt.compare at
\* the same time, resumed in any order
NextRace ==
    \/ Tick
    \/ \E pw \in {"demo123", "wrong"} :
          LoginAmong(MaxConcurrent, "ip1", "prof@x.edu", pw)
    \/ \E i \in DOMAIN inflight : LoginFinish(i)

SpecRace == InitAuth /\ [][NextRace]_vars

\* the i-th suspended login resumes with a password that does not match and
\* is answered 401 INVALID_CREDENTIALS
WrongPasswordVerified(i) ==
    /\ LoginFinish(i)
    /\ ~BcryptCompare(inflight[i].password, inflight[i].user.password)

\* C30: under any interleaving of concurrent logins for one identity, a
\* request that passed the isLocked check before the lock was set yields no
\* further password guess: no wrong-password verification is answered while
\* the identity is locked, so that at most maxLoginAttempts of them fall
\* between two consecutive lockouts.
C30_NoGuessWhileLocked ==
    [][\A i \in DOMAIN inflight :
          WrongPasswordVerified(i) =>
              ~(/\ Has(loginAttempts, inflight[i].email)
                /\ LockedAt(loginAttempts[inflight[i].email], now))]_vars

----------------------------------------------------------------------------
(* Logins of a user whose password is being changed *)

\* logins of user 1 with the seeded password, suspended at bcrypt.compare
\* while a change-password of user 1 or a reset-password by the admin is
\* suspended at its own awaits, resumed in any order
NextChange ==
    \/ Tick
    \/ \E id \in DOMAIN users :
          /\ Cardinality(issued) < MaxIssued
          /\ LoginAmong(MaxConcurrent, "ip1", users[id].email,
                        SeedUsers[id].password)
    \/ \E i \in DOMAIN inflight : LoginFinish(i)
    \/ \E h \in AccessTokensOf(1) :
          ChangePassword("ip1", <<h>>,
                         <<[currentPassword |-> "demo123",
                            newPassword |-> "changed456"]>>)
    \/ \E i \in DOMAIN inflight : ChangePasswordCompared(i)
    \/ \E i \in DOMAIN inflight : ChangePasswordFinish(i)
    \/ \E h \in AccessTokensOf(2) :
          AdminResetPassword("ip1", <<h>>, 1, <<"changed456">>)
    \/ \E i \in DOMAIN inflight : AdminResetPasswordFinish(i)

SpecChange == InitAuth /\ [][NextChange]_vars

\* the i-th suspended request is a login that read a password hash which a
\* completed password change has replaced since
ReadOldPassword(i) ==
    /\ inflight[i].op = "login"
    /\ inflight[i].user.id \in DOMAIN users
    /\ users[inflight[i].user.id].password # inflight[i].user.password

\* C31: under any interleaving of a login with a change-password or an admin
\* reset-password of the same user, a login that read the old password hash
\* before the change inserts no refresh token once the change has completed:
\* when it resumes, it returns no refresh token that has a persisted record.
C31_NoTokenFromOldPassword ==
    [][\A i \in DOMAIN inflight :
          (ReadOldPassword(i) /\ LoginFinish(i)) =>
              ~\E r \in refresh_tokens' : <<r.token>> = resp'.refreshToken]_vars

\* lockUntil of the identity's record is set and in the future
Locked(e) == Has(loginAttempts, e) /\ LockedAt(loginAttempts[e], now)

\* C32: while an identity is locked, no login response for it returns tokens
\* and no step removes or changes its lock: a login that passed the isLocked
\* check before the lock was set neither issues tokens nor clears the lock
\* when its password check completes.
C32_LockedIssuesNothing ==
    [][\A e \in Identities :
          Locked(e) =>
              /\ Has(loginAttempts', e)
              /\ loginAttempts'[e].lockUntil = loginAttempts[e].lockUntil
              /\ \A i \in DOMAIN inflight :
                    (inflight[i].email = e /\ LoginFinish(i)) =>
                        /\ resp'.accessToken = <<>>
                        /\ resp'.refreshToken = <<>>]_vars

\* C33: under any interleaving of a login with an admin deletion of the same
\* user, no refresh-token record is left for a user id absent from the user
\* store once no request is suspended any more, and a login that resumes
\* returns no tokens for a user that is deleted by then.
C33_NoTokensForDeletedUser ==
    [][/\ inflight' = <<>> =>
              \A r \in refresh_tokens' : r.user_id \in DOMAIN users'
       /\ \A i \in DOMAIN inflight :
              (LoginFinish(i) /\ inflight[i].user.id \notin DOMAIN users) =>
                  /\ resp'.accessToken = <<>>
                  /\ resp'.refreshToken = <<>>]_vars

----------------------------------------------------------------------------
(* The login attempt guard under the periodic cleanup *)

\* the guard driven directly, where time passes and the timer of setInterval
\* keeps firing
SpecGuardSweep == SpecGuard /\ WF_vars(Tick) /\ WF_vars(Cleanup)

\* the last operation on the guard was a call of it for the identity
AttemptFor(e) == call.fn \in {"trackLoginAttempt", "isAccountLocked"} /\ call.email = e

\* C34: with the periodic cleanup running, every record of the login
\* attempt guard is eventually removed unless a further login attempt is
\* made for its identity, also a record that holds fewer than
\* maxLoginAttempts failures and was never locked: a record that a cleanup
\* run has left is removed later, or a call of the guard for its identity
\* follows that run.
C34_RecordEventuallyRemoved ==
    \A e \in Identities :
        (Has(loginAttempts, e) /\ call.fn = "cleanup") ~>
            (~Has(loginAttempts, e) \/ AttemptFor(e))

----------------------------------------------------------------------------
(* optionalAuth against authenticate *)

\* C35: optionalAuth attaches a Principal for exactly the tokens that
\* authenticate accepts: for every header and at every time, optionalAuth
\* sets the request's user if and only if authenticate reaches the
\* Authenticated outcome, so that a token with a wrong issuer or audience is
\* attached by neither.
C35_OptionalAuthAgrees ==
    [][Answers("optional") =>
          (resp'.principal # <<>> <=>
               Authenticate("profile", resp'.header, now).status = 0)]_vars

----------------------------------------------------------------------------
(* Refresh tokens as sessions *)

\* C36: every successful login yields a refresh token string distinct from
\* every refresh token issued before, also for two logins of the same user
\* at the same issuance timestamp, so that each persisted record stands for
\* one session.
C36_FreshRefreshToken ==
    [][\A i \in DOMAIN inflight :
          (LoginFinish(i) /\ resp'.refreshToken # <<>>) =>
              resp'.refreshToken[1] \notin issued]_vars

----------------------------------------------------------------------------
(* What a failed login tells about the account *)

\* the fields of a login response that the client sees
Visible(r) ==
    [status |-> r.status, code |-> r.code, retryAfter |-> r.retryAfter,
     attemptsRemaining |-> r.attemptsRemaining,
     accessToken |-> r.accessToken, refreshToken |-> r.refreshToken]

\* the last response was a failed login for the address without an account,
\* and the failures counted for it since are those counted for `email'
\* once the step is taken
SameFailuresAsGhost(email) ==
    /\ resp.route = "login"
    /\ resp.email = "ghost@x.edu"
    /\ resp.status = 401
    /\ Has(loginAttempts', "ghost@x.edu")
    /\ Has(loginAttempts', email)
    /\ loginAttempts'[email] = loginAttempts'["ghost@x.edu"]

\* C37: the response to a failed login does not reveal whether the account
\* exists: after the same failed attempts, a failed login for an address
\* with an account returns the status, the code and the response fields
\* that a failed login for an address without an account returned.
C37_FailedLoginHidesAccount ==
    [][\A i \in DOMAIN inflight :
          (/\ inflight[i].email = "prof@x.edu"
           /\ SameFailuresAsGhost("prof@x.edu")
           /\ WrongPasswordVerified(i)) =>
              Visible(resp') = Visible(resp)]_vars

====
